---- MODULE Spec2Model ----
(***************************************************************************)
(* Tutor support system: the TimeSlot capacity/booking state machine       *)
(* (src/models/TimeSlot.ts) and the WeeklyPattern availability generator   *)
(* and validator (src/models/WeeklyPattern.ts).                            *)
(*                                                                         *)
(* Objects are values on a heap: every method call reads its receiver,     *)
(* may throw, and may allocate a new object.  A method is an operator that *)
(* yields a record                                                         *)
(*     [err  |-> the message of the Error thrown, or NoError,              *)
(*      ret  |-> the value returned,                                       *)
(*      self |-> the fields of the receiver after the call].               *)
(* Dates are minutes of local wall-clock time since the Monday 00:00 of    *)
(* week 0.                                                                 *)
(*                                                                         *)
(* The availability page (TutorAvailability and its WeeklyPatternForm) is  *)
(* modelled handler by handler.  The text of an input element is a         *)
(* sequence of characters, which parseInt and the number input read each   *)
(* in its own way; the number NaN is the value NaN below.                  *)
(***************************************************************************)
EXTENDS Integers, Sequences, FiniteSets, TLC

VARIABLES
    heap,      \* TimeSlot objects allocated so far, in allocation order
    made,      \* made[i]: the call that allocated heap[i]
    last,      \* the most recent call on a TimeSlot
    pattern,   \* the WeeklyPattern object
    hist,      \* the most recent calls on the pattern, oldest first
    input,     \* the WeeklyPatternInput handed to validate
    vres,      \* what validate returned for input
    tutors,    \* TutorRepository.tutors, a Map in insertion order
    mlast,     \* the most recent autoMatch call
    students,  \* StudentRepository.students, a Map in insertion order
    sessions,  \* SessionRepository.sessions, a Map in insertion order
    now,       \* the clock that new Date() reads
    qlast,     \* the most recent call on a Session or on a repository
    run,       \* the activation of generateSlotsForWeek that is being stepped
    patterns,  \* TutorAvailability: the patterns state, in list order
    week,      \* TutorAvailability: weekStart, the Monday 00:00 of the week on display
    slotOverrides, \* TutorAvailability: Map from slot id to {capacity?, isActive?}
    slots,     \* TutorAvailability: the memoised list of displayed TimeSlots
    clicks,    \* handlers of TutorAvailability that have run
    vlast      \* the most recent handler of TutorAvailability

vars == <<heap, made, last, pattern, hist, input, vres,
          tutors, mlast, students, sessions, now, qlast,
          run, patterns, week, slotOverrides, slots, clicks, vlast>>

slotVars == <<heap, made, last>>
patternVars == <<pattern, hist>>
validateVars == <<input, vres>>
tutorVars == <<tutors, mlast>>
storeVars == <<students, sessions, now, qlast>>
loopVars == <<run>>
viewVars == <<patterns, week, slotOverrides, slots, clicks, vlast>>

----------------------------------------------------------------------------
(* Bounds *)

MaxCap == 2        \* largest capacity of an initial slot
MaxObjs == 3       \* TimeSlot objects allocated in one run
MaxDays == 3       \* weekdays selected in one pattern
MaxHist == 4       \* calls on the pattern that are remembered
MaxTutors == 5     \* tutors in a generated repository
MaxRecs == 2       \* records handed to one initialize call
MaxNow == 4        \* last minute on the clock
MaxSessions == 3   \* sessions in a generated repository

----------------------------------------------------------------------------
(* Values *)

NoError == "none"
NoSlot == "no slot"
NoPattern == "undefined"
NotCalled == "not called"
Null == "null"

MinutesPerHour == 60
MinutesPerDay == 1440
DaysPerWeek == 7

\* the number NaN: no arithmetic yields anything else from it and every
\* comparison with it is false
NaN == 0 - 999999

isNaN(x) == x = NaN

Plus(a, b) == IF isNaN(a) \/ isNaN(b) THEN NaN ELSE a + b
Minus(a, b) == IF isNaN(a) \/ isNaN(b) THEN NaN ELSE a - b
Lt(a, b) == ~isNaN(a) /\ ~isNaN(b) /\ a < b
Le(a, b) == ~isNaN(a) /\ ~isNaN(b) /\ a <= b
Gt(a, b) == ~isNaN(a) /\ ~isNaN(b) /\ a > b
Ge(a, b) == ~isNaN(a) /\ ~isNaN(b) /\ a >= b
\* a === b on numbers
StrictEq(a, b) == ~isNaN(a) /\ ~isNaN(b) /\ a = b

\* Math.max(a, b)
Max(a, b) == IF isNaN(a) \/ isNaN(b) THEN NaN ELSE IF a >= b THEN a ELSE b

----------------------------------------------------------------------------
(* TimeSlot *)

\* constructor(data)
TimeSlot(data) ==
    [id |-> data.id, tutorId |-> data.tutorId, patternId |-> data.patternId,
     start |-> data.start, end |-> data.end, modality |-> data.modality,
     capacity |-> data.capacity, booked |-> data.booked,
     isActive |-> data.isActive]

toData(s) ==
    [id |-> s.id, tutorId |-> s.tutorId, patternId |-> s.patternId,
     start |-> s.start, end |-> s.end, modality |-> s.modality,
     capacity |-> s.capacity, booked |-> s.booked, isActive |-> s.isActive]

availableSeats(s) == Max(0, s.capacity - s.booked)

isFullyBooked_gt(s) == s.booked > s.capacity

isFullyBooked(s) == s.booked >= s.capacity

isBookable(s) == s.isActive /\ ~isFullyBooked(s)

toggleActive_inPlace(s) ==
    [err |-> NoError,
     ret |-> TimeSlot([toData(s) EXCEPT !.isActive = ~s.isActive]),
     self |-> [s EXCEPT !.isActive = ~s.isActive]]

toggleActive(s) ==
    [err |-> NoError,
     ret |-> TimeSlot([toData(s) EXCEPT !.isActive = ~s.isActive]),
     self |-> s]

updateCapacity_unclamped(s, newCapacity) ==
    [err |-> NoError,
     ret |-> TimeSlot([toData(s) EXCEPT !.capacity = newCapacity]),
     self |-> s]

updateCapacity_reject(s, newCapacity) ==
    IF newCapacity < s.booked
    THEN [err |-> "Capacity below bookings", ret |-> NoSlot, self |-> s]
    ELSE [err |-> NoError,
          ret |-> TimeSlot([toData(s) EXCEPT !.capacity = newCapacity]),
          self |-> s]

updateCapacity(s, newCapacity) ==
    LET validCapacity == Max(newCapacity, s.booked)
    IN  [err |-> NoError,
         ret |-> TimeSlot([toData(s) EXCEPT !.capacity = validCapacity]),
         self |-> s]

addBooking_keepCount(s) ==
    IF isFullyBooked(s)
    THEN [err |-> "Slot is fully booked", ret |-> NoSlot, self |-> s]
    ELSE [err |-> NoError, ret |-> TimeSlot(toData(s)), self |-> s]

addBooking_bookableOnly(s) ==
    IF ~isBookable(s)
    THEN [err |-> "Slot is fully booked", ret |-> NoSlot, self |-> s]
    ELSE [err |-> NoError,
          ret |-> TimeSlot([toData(s) EXCEPT !.booked = s.booked + 1]),
          self |-> s]

addBooking(s) ==
    IF isFullyBooked(s)
    THEN [err |-> "Slot is fully booked", ret |-> NoSlot, self |-> s]
    ELSE [err |-> NoError,
          ret |-> TimeSlot([toData(s) EXCEPT !.booked = s.booked + 1]),
          self |-> s]

removeBooking_noGuard(s) ==
    [err |-> NoError,
     ret |-> TimeSlot([toData(s) EXCEPT !.booked = s.booked - 1]),
     self |-> s]

removeBooking(s) ==
    IF s.booked <= 0
    THEN [err |-> "No bookings to remove", ret |-> NoSlot, self |-> s]
    ELSE [err |-> NoError,
          ret |-> TimeSlot([toData(s) EXCEPT !.booked = s.booked - 1]),
          self |-> s]

\* The two failure conditions, told apart by the message of the Error.
Conflict == "Slot is fully booked"
InvalidState == "No bookings to remove"

\* The slots a run starts from: any slot with 0 <= booked <= capacity.
InitialSlots ==
    UNION { { TimeSlot([id |-> "slot-1", tutorId |-> "tutor-1",
                        patternId |-> pm[1],
                        start |-> 9 * MinutesPerHour,
                        end |-> 10 * MinutesPerHour,
                        modality |-> pm[2], capacity |-> c, booked |-> b,
                        isActive |-> a]) :
                pm \in {<<NoPattern, "in_person">>, <<"pattern-1", "online">>},
                b \in 0..c, a \in BOOLEAN } : c \in 0..MaxCap }

\* The capacities a caller asks for: below, within and above the bookings.
CapacityArgs == (0 - 2)..(MaxCap + 1)

\* One call on heap[i]: the receiver takes its fields after the call, and a
\* returned slot is allocated.
Call(op, i, arg, r) ==
    /\ r.err = NoError => Len(heap) < MaxObjs
    /\ heap' = IF r.err = NoError
               THEN Append([heap EXCEPT ![i] = r.self], r.ret)
               ELSE [heap EXCEPT ![i] = r.self]
    /\ made' = IF r.err = NoError
               THEN Append(made, [op |-> op, from |-> i, arg |-> arg])
               ELSE made
    /\ last' = [op |-> op, recv |-> i, arg |-> arg, err |-> r.err,
                res |-> IF r.err = NoError THEN Len(heap) + 1 ELSE 0]
    /\ UNCHANGED <<patternVars, validateVars, tutorVars, storeVars, loopVars, viewVars>>

ToggleActive == \E i \in DOMAIN heap : Call("toggleActive", i, 0, toggleActive(heap[i]))

UpdateCapacity ==
    \E i \in DOMAIN heap : \E n \in CapacityArgs :
        Call("updateCapacity", i, n, updateCapacity(heap[i], n))

AddBooking == \E i \in DOMAIN heap : Call("addBooking", i, 0, addBooking(heap[i]))

RemoveBooking == \E i \in DOMAIN heap : Call("removeBooking", i, 0, removeBooking(heap[i]))

----------------------------------------------------------------------------
(* WeeklyPattern *)

RECURSIVE insertSorted(_, _)
insertSorted(x, seq) ==
    IF seq = <<>> THEN <<x>>
    ELSE IF x - Head(seq) < 0 THEN <<x>> \o seq
    ELSE <<Head(seq)>> \o insertSorted(x, Tail(seq))

\* [...days].sort((a, b) => a - b)
RECURSIVE sortAscending(_)
sortAscending(seq) ==
    IF seq = <<>> THEN <<>>
    ELSE insertSorted(seq[Len(seq)], sortAscending(SubSeq(seq, 1, Len(seq) - 1)))

\* constructor(data)
WeeklyPattern(data) ==
    [id |-> data.id, tutorId |-> data.tutorId, label |-> data.label,
     days |-> sortAscending(data.days),
     startHour |-> data.startHour, startMinute |-> data.startMinute,
     endHour |-> data.endHour, endMinute |-> data.endMinute,
     durationMinutes |-> data.durationMinutes, modality |-> data.modality,
     capacity |-> data.capacity, isActive |-> data.isActive]

startTimeMinutes(p) == p.startHour * MinutesPerHour + p.startMinute

endTimeMinutes(p) == p.endHour * MinutesPerHour + p.endMinute

totalRangeMinutes(p) == endTimeMinutes(p) - startTimeMinutes(p)

\* Math.floor(range / duration); \div rounds down like Math.floor
slotsPerDay(p) ==
    IF isNaN(p.durationMinutes) THEN NaN
    ELSE totalRangeMinutes(p) \div p.durationMinutes

\* date-fns: each returns a new Date and leaves its argument alone
addDays(date, amount) == date + amount * MinutesPerDay

setHours(date, hours) ==
    (date \div MinutesPerDay) * MinutesPerDay + hours * MinutesPerHour
        + (date % MinutesPerHour)

setMinutes(date, minutes) == (date \div MinutesPerHour) * MinutesPerHour + minutes

dayOffset_sundayFirst(dayOfWeek) == dayOfWeek

dayOffset(dayOfWeek) == IF dayOfWeek = 0 THEN 6 ELSE dayOfWeek - 1

\* a last step that overruns the range is cut at its end
RECURSIVE slotsOfDay_clamped(_, _, _)
slotsOfDay_clamped(p, date, currentMinutes) ==
    IF currentMinutes < endTimeMinutes(p)
    THEN LET endMinutes == IF currentMinutes + p.durationMinutes <= endTimeMinutes(p)
                           THEN currentMinutes + p.durationMinutes
                           ELSE endTimeMinutes(p)
         IN  <<[start |-> setMinutes(setHours(date, currentMinutes \div MinutesPerHour),
                                     currentMinutes % MinutesPerHour),
                end |-> setMinutes(setHours(date, endMinutes \div MinutesPerHour),
                                   endMinutes % MinutesPerHour)]>>
                 \o slotsOfDay_clamped(p, date, currentMinutes + p.durationMinutes)
    ELSE <<>>

RECURSIVE slotsOfDay_strict(_, _, _)
slotsOfDay_strict(p, date, currentMinutes) ==
    IF currentMinutes + p.durationMinutes < endTimeMinutes(p)
    THEN <<[start |-> setMinutes(setHours(date, currentMinutes \div MinutesPerHour),
                                 currentMinutes % MinutesPerHour),
            end |-> setMinutes(setHours(date, (currentMinutes + p.durationMinutes) \div MinutesPerHour),
                               (currentMinutes + p.durationMinutes) % MinutesPerHour)]>>
         \o slotsOfDay_strict(p, date, currentMinutes + p.durationMinutes)
    ELSE <<>>

\* the while loop of generateSlotsForWeek, from currentMinutes on
RECURSIVE slotsOfDay(_, _, _)
slotsOfDay(p, date, currentMinutes) ==
    IF Le(Plus(currentMinutes, p.durationMinutes), endTimeMinutes(p))
    THEN LET startHour == currentMinutes \div MinutesPerHour
             startMin == currentMinutes % MinutesPerHour
             endMinutes == currentMinutes + p.durationMinutes
             endHour == endMinutes \div MinutesPerHour
             endMin == endMinutes % MinutesPerHour
             start == setMinutes(setHours(date, startHour), startMin)
             end == setMinutes(setHours(date, endHour), endMin)
         IN  <<[start |-> start, end |-> end]>>
                 \o slotsOfDay(p, date, currentMinutes + p.durationMinutes)
    ELSE <<>>

\* the for loop of generateSlotsForWeek, over the days from position k on
RECURSIVE slotsOfDays(_, _, _)
slotsOfDays(p, weekStart, k) ==
    IF k > Len(p.days) THEN <<>>
    ELSE LET date == addDays(weekStart, dayOffset(p.days[k]))
         IN  slotsOfDay(p, date, startTimeMinutes(p))
                 \o slotsOfDays(p, weekStart, k + 1)

generateSlotsForWeek_consuming(p, weekStart) ==
    IF ~p.isActive THEN [err |-> NoError, ret |-> <<>>, self |-> p]
    ELSE [err |-> NoError, ret |-> slotsOfDays(p, weekStart, 1),
          self |-> [p EXCEPT !.days = <<>>]]

generateSlotsForWeek(p, weekStart) ==
    IF ~p.isActive THEN [err |-> NoError, ret |-> <<>>, self |-> p]
    ELSE [err |-> NoError, ret |-> slotsOfDays(p, weekStart, 1), self |-> p]

\* changes.f ?? this._f : a field left out of changes is undefined
Coalesce(changes, f, current) ==
    IF f \in DOMAIN changes THEN changes[f] ELSE current

\* changes.f || this._f, as a slip for ??
Either(changes, f, current) ==
    IF f \in DOMAIN changes /\ changes[f] # FALSE THEN changes[f] ELSE current

update_falsy(p, changes) ==
    [err |-> NoError,
     ret |-> WeeklyPattern(
        [id |-> p.id, tutorId |-> p.tutorId,
         label |-> Coalesce(changes, "label", p.label),
         days |-> Coalesce(changes, "days", p.days),
         startHour |-> Coalesce(changes, "startHour", p.startHour),
         startMinute |-> Coalesce(changes, "startMinute", p.startMinute),
         endHour |-> Coalesce(changes, "endHour", p.endHour),
         endMinute |-> Coalesce(changes, "endMinute", p.endMinute),
         durationMinutes |-> Coalesce(changes, "durationMinutes", p.durationMinutes),
         modality |-> Coalesce(changes, "modality", p.modality),
         capacity |-> Coalesce(changes, "capacity", p.capacity),
         isActive |-> Either(changes, "isActive", p.isActive)]),
     self |-> p]

update(p, changes) ==
    [err |-> NoError,
     ret |-> WeeklyPattern(
        [id |-> p.id, tutorId |-> p.tutorId,
         label |-> Coalesce(changes, "label", p.label),
         days |-> Coalesce(changes, "days", p.days),
         startHour |-> Coalesce(changes, "startHour", p.startHour),
         startMinute |-> Coalesce(changes, "startMinute", p.startMinute),
         endHour |-> Coalesce(changes, "endHour", p.endHour),
         endMinute |-> Coalesce(changes, "endMinute", p.endMinute),
         durationMinutes |-> Coalesce(changes, "durationMinutes", p.durationMinutes),
         modality |-> Coalesce(changes, "modality", p.modality),
         capacity |-> Coalesce(changes, "capacity", p.capacity),
         isActive |-> Coalesce(changes, "isActive", p.isActive)]),
     self |-> p]

WeeklyPattern_toggleActive(p) == update(p, [isActive |-> ~p.isActive])

validate_laxCapacity(in) ==
    IF Len(in.days) = 0 THEN "Select at least one weekday."
    ELSE LET startTotal == in.startHour * MinutesPerHour + in.startMinute
             endTotal == in.endHour * MinutesPerHour + in.endMinute
         IN  IF endTotal <= startTotal THEN "End time must be after start time."
             ELSE IF Lt(in.durationMinutes, 15)
                  THEN "Duration must be at least 15 minutes."
             ELSE IF Gt(in.durationMinutes, endTotal - startTotal)
                  THEN "Duration must fit within the time range."
             ELSE IF Lt(in.capacity, 0) THEN "Capacity must be at least 1."
             ELSE Null

\* static validate(input)
validate(in) ==
    IF Len(in.days) = 0 THEN "Select at least one weekday."
    ELSE LET startTotal == in.startHour * MinutesPerHour + in.startMinute
             endTotal == in.endHour * MinutesPerHour + in.endMinute
         IN  IF endTotal <= startTotal THEN "End time must be after start time."
             ELSE IF Lt(in.durationMinutes, 15)
                  THEN "Duration must be at least 15 minutes."
             ELSE IF Gt(in.durationMinutes, endTotal - startTotal)
                  THEN "Duration must fit within the time range."
             ELSE IF Lt(in.capacity, 1) THEN "Capacity must be at least 1."
             ELSE Null

\* static create(tutorId, input); stamp stands for the Date.now() and
\* Math.random() of the generated id
create(tutorId, in, stamp) ==
    WeeklyPattern(
        [id |-> "pattern-" \o ToString(stamp), tutorId |-> tutorId, label |-> in.label,
         days |-> in.days,
         startHour |-> in.startHour, startMinute |-> in.startMinute,
         endHour |-> in.endHour, endMinute |-> in.endMinute,
         durationMinutes |-> in.durationMinutes, modality |-> in.modality,
         capacity |-> in.capacity, isActive |-> in.isActive])

----------------------------------------------------------------------------
(* Inputs *)

DayUniverse == {0, 1, 3, 5}

RECURSIVE DayListsOfLen(_)
DayListsOfLen(n) ==
    IF n = 0 THEN {<<>>}
    ELSE { Append(l, d) : l \in DayListsOfLen(n - 1), d \in DayUniverse }

IsDistinct(l) == \A i, j \in DOMAIN l : i # j => l[i] # l[j]

\* the weekdays ticked in the form, in any order of arrival
DayLists ==
    UNION { { l \in DayListsOfLen(n) : IsDistinct(l) } : n \in 0..MaxDays }

StartHours == {9, 10}
StartMinutes == {0, 30}
EndHours == {9, 10, 12}
Durations == {10, 15, 45, 60, 200}
Capacities == {0 - 1, 0, 1, 3}

Inputs ==
    { [modality |-> "online", capacity |-> c, isActive |-> a,
       label |-> "undefined", days |-> l, startHour |-> sh, startMinute |-> sm,
       endHour |-> eh, endMinute |-> 0, durationMinutes |-> dur] :
        l \in DayLists, sh \in StartHours, sm \in StartMinutes, eh \in EndHours,
        dur \in Durations, c \in Capacities, a \in BOOLEAN }

\* Mondays, 00:00
WeekStarts == {0, DaysPerWeek * MinutesPerDay}

----------------------------------------------------------------------------
(* Calls on the pattern *)

Remember(e) ==
    IF Len(hist) < MaxHist THEN Append(hist, e) ELSE Append(Tail(hist), e)

\* a caller holding the pattern asks for the slots of a week
GenerateSlots ==
    \E weekStart \in WeekStarts :
        LET r == generateSlotsForWeek(pattern, weekStart)
        IN  /\ pattern' = r.self
            /\ hist' = Remember([op |-> "generateSlotsForWeek", arg |-> weekStart,
                                 active |-> pattern.isActive, ret |-> r.ret])
            /\ UNCHANGED <<slotVars, validateVars, tutorVars, storeVars, loopVars, viewVars>>

\* handleTogglePattern: the pattern is replaced by its toggled copy
TogglePattern ==
    LET r == WeeklyPattern_toggleActive(pattern)
    IN  /\ pattern' = r.ret
        /\ hist' = Remember([op |-> "toggleActive", arg |-> 0,
                             active |-> pattern.isActive, ret |-> <<>>])
        /\ UNCHANGED <<slotVars, validateVars, tutorVars, storeVars, loopVars, viewVars>>

\* handleSubmit: the form input goes through validate
Validate ==
    /\ vres = NotCalled
    /\ vres' = validate(input)
    /\ UNCHANGED <<input, slotVars, patternVars, tutorVars, storeVars, loopVars, viewVars>>

----------------------------------------------------------------------------
(* Map<string, T>: entries in insertion order *)

Undefined == "undefined"

MapClear == <<>>

MapHas(m, k) == \E i \in DOMAIN m : m[i].key = k

\* set(k, v): a key that is present keeps its place and takes the new value
MapSet(m, k, v) ==
    IF MapHas(m, k)
    THEN [i \in DOMAIN m |-> IF m[i].key = k THEN [key |-> k, value |-> v] ELSE m[i]]
    ELSE Append(m, [key |-> k, value |-> v])

MapGet(m, k) ==
    IF MapHas(m, k) THEN m[CHOOSE i \in DOMAIN m : m[i].key = k].value ELSE Undefined

\* Array.from(map.values())
MapValues(m) == [i \in DOMAIN m |-> m[i].value]

MapSize(m) == Len(m)

Range(seq) == { seq[i] : i \in DOMAIN seq }

----------------------------------------------------------------------------
(* Tutor and TutorRepository *)

\* String.prototype.toLowerCase on the subject names in use
toLowerCase(str) ==
    CASE str = "Calculus" -> "calculus"
      [] str = "CALCULUS" -> "calculus"
      [] str = "Physics 1" -> "physics 1"
      [] str = "PHYSICS 1" -> "physics 1"
      [] str = "Linear Algebra" -> "linear algebra"
      [] str = "Data Structures & Algorithms" -> "data structures & algorithms"
      [] str = "Operating Systems" -> "operating systems"
      [] str = "Software Engineering" -> "software engineering"
      [] str = "Database Systems" -> "database systems"
      [] str = "Computer Networks" -> "computer networks"
      [] str = "Digital Systems" -> "digital systems"
      [] str = "Signals & Systems" -> "signals & systems"
      [] str = "Physics 2" -> "physics 2"
      [] OTHER -> str

\* constructor(data); ratings are in tenths (4.8 is 48)
Tutor(data) ==
    [id |-> data.id, subjects |-> data.subjects, rating |-> data.rating,
     totalSessions |-> data.totalSessions, modalities |-> data.modalities]

hasModality(t, modality) == \E i \in DOMAIN t.modalities : t.modalities[i] = modality

teachesSubject_caseSensitive(t, subject) ==
    \E i \in DOMAIN t.subjects : t.subjects[i] = subject

teachesSubject(t, subject) ==
    \E i \in DOMAIN t.subjects : toLowerCase(t.subjects[i]) = toLowerCase(subject)

\* the forEach of TutorRepository.initialize, from record k on
RECURSIVE setTutors(_, _, _)
setTutors(m, tutorsData, k) ==
    IF k > Len(tutorsData) THEN m
    ELSE LET tutor == Tutor(tutorsData[k])
         IN  setTutors(MapSet(m, tutor.id, tutor), tutorsData, k + 1)

\* TutorRepository.initialize: the contents after the call
initializeTutors(m, tutorsData) == setTutors(MapClear, tutorsData, 1)

\* TutorRepository.findAll
findAllTutors(m) == MapValues(m)

\* TutorRepository.findById
findTutorById(m, id) == MapGet(m, id)

RECURSIVE insertByRating_unstable(_, _)
insertByRating_unstable(x, seq) ==
    IF seq = <<>> THEN <<x>>
    ELSE IF Head(seq).rating - x.rating <= 0 THEN <<x>> \o seq
    ELSE <<Head(seq)>> \o insertByRating_unstable(x, Tail(seq))

RECURSIVE insertByRating(_, _)
insertByRating(x, seq) ==
    IF seq = <<>> THEN <<x>>
    ELSE IF Head(seq).rating - x.rating < 0 THEN <<x>> \o seq
    ELSE <<Head(seq)>> \o insertByRating(x, Tail(seq))

RECURSIVE sortByRating_ascending(_)
sortByRating_ascending(seq) ==
    IF seq = <<>> THEN <<>>
    ELSE LET rest == sortByRating_ascending(SubSeq(seq, 1, Len(seq) - 1))
             x == seq[Len(seq)]
             before == SelectSeq(rest, LAMBDA e : e.rating <= x.rating)
             after == SelectSeq(rest, LAMBDA e : e.rating > x.rating)
         IN  before \o <<x>> \o after

\* [...candidates].sort((a, b) => b.rating - a.rating): stable, highest first
RECURSIVE sortByRating(_)
sortByRating(seq) ==
    IF seq = <<>> THEN <<>>
    ELSE insertByRating(seq[Len(seq)], sortByRating(SubSeq(seq, 1, Len(seq) - 1)))

\* a string in a condition: undefined and "" are falsy
Truthy(str) == str # Undefined /\ str # ""

\* rest.slice(0, n)
Slice(seq, n) == SubSeq(seq, 1, IF Len(seq) < n THEN Len(seq) ELSE n)

AlternatesCap == 3

isCandidate_noExclusion(t, params) ==
    LET subjectMatch == ~Truthy(params.subject) \/ teachesSubject(t, params.subject)
        modalityMatch == params.modality = "all" \/ hasModality(t, params.modality)
    IN  subjectMatch /\ modalityMatch

\* the filter callback of autoMatch
isCandidate(t, params) ==
    IF Truthy(params.excludeTutorId) /\ t.id = params.excludeTutorId
    THEN FALSE
    ELSE LET subjectMatch == ~Truthy(params.subject) \/ teachesSubject(t, params.subject)
             modalityMatch == params.modality = "all" \/ hasModality(t, params.modality)
         IN  subjectMatch /\ modalityMatch

candidatesOf(m, params) == SelectSeq(findAllTutors(m), LAMBDA t : isCandidate(t, params))

\* null where a Tutor is expected
NoTutor ==
    [id |-> "null", subjects |-> <<>>, rating |-> 0, totalSessions |-> 0,
     modalities |-> <<>>]

pickAlternates_withFirst(sorted) == Slice(sorted, AlternatesCap)

\* const [recommended, ...rest] = sorted; rest.slice(0, 3)
pickAlternates(sorted) == Slice(Tail(sorted), AlternatesCap)

RECURSIVE setSorted(_, _, _)
setSorted(m, sorted, k) ==
    IF k > Len(sorted) THEN m
    ELSE setSorted(MapSet(m, sorted[k].id, sorted[k]), sorted, k + 1)

autoMatch_sortsStore(m, params) ==
    LET candidates == candidatesOf(m, params)
        sorted == sortByRating(findAllTutors(m))
    IN  IF Len(candidates) = 0
        THEN [err |-> NoError, ret |-> [recommended |-> NoTutor, alternates |-> <<>>],
              self |-> m]
        ELSE [err |-> NoError,
              ret |-> [recommended |-> sortByRating(candidates)[1],
                       alternates |-> pickAlternates(sortByRating(candidates))],
              self |-> setSorted(MapClear, sorted, 1)]

\* TutorRepository.autoMatch
autoMatch(m, params) ==
    LET candidates == candidatesOf(m, params)
    IN  IF Len(candidates) = 0
        THEN [err |-> NoError, ret |-> [recommended |-> NoTutor, alternates |-> <<>>],
              self |-> m]
        ELSE LET sorted == sortByRating(candidates)
                 recommended == sorted[1]
                 alternates == pickAlternates(sorted)
             IN  [err |-> NoError,
                  ret |-> [recommended |-> recommended, alternates |-> alternates],
                  self |-> m]

\* TUTORS_DATA
MockTutors ==
    << [id |-> "tutor-1", subjects |-> <<"Data Structures & Algorithms", "Operating Systems">>,
        rating |-> 47, totalSessions |-> 32, modalities |-> <<"online", "in_person">>],
       [id |-> "tutor-2", subjects |-> <<"Data Structures & Algorithms", "Software Engineering">>,
        rating |-> 48, totalSessions |-> 45, modalities |-> <<"online", "in_person">>],
       [id |-> "tutor-3", subjects |-> <<"Software Engineering", "Database Systems">>,
        rating |-> 49, totalSessions |-> 62, modalities |-> <<"online", "in_person">>],
       [id |-> "tutor-4", subjects |-> <<"Calculus", "Linear Algebra">>,
        rating |-> 47, totalSessions |-> 38, modalities |-> <<"online">>],
       [id |-> "tutor-5", subjects |-> <<"Computer Networks", "Database Systems">>,
        rating |-> 46, totalSessions |-> 29, modalities |-> <<"in_person">>],
       [id |-> "tutor-6", subjects |-> <<"Digital Systems", "Signals & Systems">>,
        rating |-> 45, totalSessions |-> 24, modalities |-> <<"online", "in_person">>],
       [id |-> "tutor-7", subjects |-> <<"Physics 1", "Physics 2">>,
        rating |-> 48, totalSessions |-> 51, modalities |-> <<"online">>] >>

\* the kinds of tutor a repository is filled with
TutorProfiles ==
    { [subjects |-> <<"Calculus", "Linear Algebra">>, rating |-> 48,
       totalSessions |-> 10, modalities |-> <<"online">>],
      [subjects |-> <<"Physics 1", "calculus">>, rating |-> 45,
       totalSessions |-> 20, modalities |-> <<"online", "in_person">>],
      [subjects |-> <<"Physics 1">>, rating |-> 49,
       totalSessions |-> 30, modalities |-> <<"in_person">>] }

TutorIds == <<"tutor-1", "tutor-2", "tutor-3", "tutor-4", "tutor-5", "tutor-6", "tutor-7">>

\* n tutors tutor-1 .. tutor-n, each of any profile
RECURSIVE TutorLists(_)
TutorLists(n) ==
    IF n = 0 THEN {<<>>}
    ELSE { Append(l, [id |-> TutorIds[n], subjects |-> p.subjects, rating |-> p.rating,
                      totalSessions |-> p.totalSessions, modalities |-> p.modalities]) :
             l \in TutorLists(n - 1), p \in TutorProfiles }

MatchSubjects == {"", "Calculus", "PHYSICS 1", "Chemistry"}
MatchModalities == {"all", "online", "in_person"}
ExcludeIds == {Undefined, "tutor-1", "tutor-2"}

MatchParams ==
    { [modality |-> md, subject |-> sb, excludeTutorId |-> ex] :
        sb \in MatchSubjects, md \in MatchModalities, ex \in ExcludeIds }

NoMatch ==
    [called |-> FALSE, repeat |-> FALSE, err |-> NoError,
     params |-> [modality |-> "all", subject |-> "", excludeTutorId |-> Undefined],
     ret |-> [recommended |-> NoTutor, alternates |-> <<>>]]

\* handleAutoMatch: the form state and the signed-in user's tutorId go to
\* autoMatch, and the result is kept
AutoMatch ==
    \E params \in MatchParams :
        LET r == autoMatch(tutors, params)
        IN  /\ tutors' = r.self
            /\ mlast' = [called |-> TRUE,
                         repeat |-> mlast.called /\ mlast.params = params,
                         err |-> r.err, params |-> params, ret |-> r.ret]
            /\ UNCHANGED <<slotVars, patternVars, validateVars, storeVars, loopVars, viewVars>>

IdleTutors ==
    /\ tutors = MapClear
    /\ mlast = NoMatch

----------------------------------------------------------------------------
(* Student and StudentRepository *)

\* constructor(data)
Student(data) == [id |-> data.id, name |-> data.name]

\* undefined where a Student is expected
NoStudent == [id |-> "undefined", name |-> ""]

RECURSIVE setStudents(_, _, _)
setStudents(m, studentsData, k) ==
    IF k > Len(studentsData) THEN m
    ELSE LET student == Student(studentsData[k])
         IN  setStudents(MapSet(m, student.id, student), studentsData, k + 1)

\* StudentRepository.initialize: the contents after the call
initializeStudents(m, studentsData) == setStudents(MapClear, studentsData, 1)

findStudentById(m, id) ==
    [err |-> NoError, ret |-> IF MapHas(m, id) THEN MapGet(m, id) ELSE NoStudent,
     self |-> m]

NotFound(id) == "Student not found: " \o id

getStudentById_lenient(m, id) ==
    [err |-> NoError, ret |-> findStudentById(m, id).ret, self |-> m]

getStudentById(m, id) ==
    LET student == findStudentById(m, id).ret
    IN  IF student = NoStudent
        THEN [err |-> NotFound(id), ret |-> NoStudent, self |-> m]
        ELSE [err |-> NoError, ret |-> student, self |-> m]

\* ids.map(findById).filter(s => s !== undefined)
findStudentsByIds(m, ids) ==
    [err |-> NoError,
     ret |-> SelectSeq([i \in DOMAIN ids |-> findStudentById(m, ids[i]).ret],
                       LAMBDA st : st # NoStudent),
     self |-> m]

studentExists(m, id) == [err |-> NoError, ret |-> MapHas(m, id), self |-> m]

----------------------------------------------------------------------------
(* Session and SessionRepository; times are minutes on the clock *)

\* date-fns
isAfter(date, dateToCompare) == date > dateToCompare
isBefore(date, dateToCompare) == date < dateToCompare
addMinutes(date, amount) == date + amount

\* constructor(data); a field left out of data is undefined
Session(data) ==
    [id |-> data.id, tutorId |-> data.tutorId, modality |-> data.modality,
     studentId |-> data.studentId, status |-> data.status,
     startTime |-> data.startTime, endTime |-> data.endTime,
     feedbackSubmitted |-> Coalesce(data, "feedbackSubmitted", FALSE),
     attendance |-> Coalesce(data, "attendance", "pending"),
     tutorNotes |-> Coalesce(data, "tutorNotes", Undefined)]

\* undefined or null where a Session is expected
NoSession ==
    [id |-> "undefined", tutorId |-> "", modality |-> "", studentId |-> "",
     status |-> "", startTime |-> 0, endTime |-> 0, feedbackSubmitted |-> FALSE,
     attendance |-> "", tutorNotes |-> Undefined]

isUpcoming_statusOnly(s, clock) == s.status = "upcoming"

\* the clock is what new Date() returns during the call
isUpcoming(s, clock) == s.status = "upcoming" /\ isAfter(s.startTime, clock)

isActive_fromCreation(s, clock) ==
    \/ s.status = "active"
    \/ s.status = "upcoming" /\ isBefore(clock, s.endTime)

isActive(s, clock) ==
    \/ s.status = "active"
    \/ /\ s.status = "upcoming"
       /\ isAfter(clock, s.startTime)
       /\ isBefore(clock, s.endTime)

canJoin(s, minutesBefore, clock) ==
    IF s.status = "cancelled" \/ s.status = "no_show" THEN FALSE
    ELSE LET joinWindow == addMinutes(s.startTime, 0 - minutesBefore)
         IN  isAfter(clock, joinWindow) /\ isBefore(clock, s.endTime)

RECURSIVE setSessions(_, _, _)
setSessions(m, sessionsData, k) ==
    IF k > Len(sessionsData) THEN m
    ELSE LET session == Session(sessionsData[k])
         IN  setSessions(MapSet(m, session.id, session), sessionsData, k + 1)

initializeSessions_noClear(m, sessionsData) == setSessions(m, sessionsData, 1)

\* SessionRepository.initialize: the contents after the call
initializeSessions(m, sessionsData) == setSessions(MapClear, sessionsData, 1)

addSession_resets(m, sessionData) ==
    LET session == Session(sessionData)
    IN  [err |-> NoError, ret |-> session,
         self |-> MapSet(MapClear, session.id, session)]

\* SessionRepository.add
addSession(m, sessionData) ==
    LET session == Session(sessionData)
    IN  [err |-> NoError, ret |-> session, self |-> MapSet(m, session.id, session)]

findAllSessions(m) == MapValues(m)

findSessionById(m, id) ==
    [err |-> NoError, ret |-> IF MapHas(m, id) THEN MapGet(m, id) ELSE NoSession,
     self |-> m]

findByStudentId(m, studentId) ==
    SelectSeq(findAllSessions(m), LAMBDA s : s.studentId = studentId)

findByTutorId(m, tutorId) ==
    SelectSeq(findAllSessions(m), LAMBDA s : s.tutorId = tutorId)

RECURSIVE insertByStart(_, _)
insertByStart(x, seq) ==
    IF seq = <<>> THEN <<x>>
    ELSE IF x.startTime - Head(seq).startTime < 0 THEN <<x>> \o seq
    ELSE <<Head(seq)>> \o insertByStart(x, Tail(seq))

\* sort((a, b) => a.startTime.getTime() - b.startTime.getTime()): stable
RECURSIVE sortByStart(_)
sortByStart(seq) ==
    IF seq = <<>> THEN <<>>
    ELSE insertByStart(seq[Len(seq)], sortByStart(SubSeq(seq, 1, Len(seq) - 1)))

getUpcomingForStudent(m, studentId, clock) ==
    [err |-> NoError,
     ret |-> sortByStart(SelectSeq(findByStudentId(m, studentId),
                                   LAMBDA s : isUpcoming(s, clock))),
     self |-> m]

getUpcomingForTutor(m, tutorId, clock) ==
    [err |-> NoError,
     ret |-> sortByStart(SelectSeq(findByTutorId(m, tutorId),
                                   LAMBDA s : isUpcoming(s, clock))),
     self |-> m]

getNextSessionForStudent(m, studentId, clock) ==
    LET upcoming == getUpcomingForStudent(m, studentId, clock).ret
    IN  [err |-> NoError,
         ret |-> IF Len(upcoming) > 0 THEN upcoming[1] ELSE NoSession,
         self |-> m]

getNextSessionForTutor(m, tutorId, clock) ==
    LET upcoming == getUpcomingForTutor(m, tutorId, clock).ret
    IN  [err |-> NoError,
         ret |-> IF Len(upcoming) > 0 THEN upcoming[1] ELSE NoSession,
         self |-> m]

----------------------------------------------------------------------------
(* Calls on the repositories and on a Session *)

StudentIds == {"student-1", "student-2"}
UnknownStudent == "student-0"
SessionIds == <<"session-1", "session-2", "session-3", "session-4", "session-5">>
UnknownSession == "session-0"
UnknownTutor == "tutor-0"

StudentRecords == { [id |-> id, name |-> n] : id \in StudentIds, n \in {"An", "Binh"} }

RECURSIVE ListsOver(_, _)
ListsOver(S, n) ==
    IF n = 0 THEN {<<>>}
    ELSE ListsOver(S, n - 1) \cup { Append(l, x) : l \in ListsOver(S, n - 1), x \in S }

\* what the repository calls of SpecStore are given
StoredSessions ==
    { [id |-> SessionIds[k], tutorId |-> "tutor-1", modality |-> "online",
       studentId |-> "student-1", status |-> st, startTime |-> 2, endTime |-> 3] :
        k \in 1..2, st \in {"upcoming", "completed"} }

Statuses == {"upcoming", "active", "completed", "cancelled", "no_show"}

\* one session of any status, one or two minutes long
SessionShapes ==
    { [id |-> "session-1", tutorId |-> "tutor-1", modality |-> "online",
       studentId |-> "student-1", status |-> st, startTime |-> b, endTime |-> b + len] :
        st \in Statuses, b \in {2, 3}, len \in {1, 2} }

JoinMargins == {0, 1, 2}

\* who a session is for, and its status and start
Parties == {<<"student-1", "tutor-1">>, <<"student-2", "tutor-1">>, <<"student-1", "tutor-2">>}
Schedules == {<<"upcoming", 1>>, <<"upcoming", 2>>, <<"completed", 2>>}

RECURSIVE SessionLists(_)
SessionLists(n) ==
    IF n = 0 THEN {<<>>}
    ELSE { Append(l, [id |-> SessionIds[n], tutorId |-> p[2], modality |-> "online",
                      studentId |-> p[1], status |-> sc[1],
                      startTime |-> sc[2], endTime |-> sc[2] + 1]) :
             l \in SessionLists(n - 1), p \in Parties, sc \in Schedules }

\* a call that returns: the store takes its state after the call
Query(op, arg, r) == qlast' = <<op, arg, now, r.err, r.ret>>

\* the parts of a recorded call
Op(q) == q[1]
Arg(q) == q[2]
At(q) == q[3]
Err(q) == q[4]
Ret(q) == q[5]

Tick ==
    /\ now < MaxNow
    /\ now' = now + 1
    /\ UNCHANGED <<students, sessions, qlast, slotVars, patternVars, validateVars, tutorVars, loopVars, viewVars>>

OnStudents(op, arg, r) ==
    /\ Query(op, arg, r)
    /\ students' = r.self
    /\ UNCHANGED <<sessions, now, slotVars, patternVars, validateVars, tutorVars, loopVars, viewVars>>

OnSessions(op, arg, r) ==
    /\ Query(op, arg, r)
    /\ sessions' = r.self
    /\ UNCHANGED <<students, now, slotVars, patternVars, validateVars, tutorVars, loopVars, viewVars>>

FindStudentById ==
    \E id \in StudentIds \cup {UnknownStudent} :
        OnStudents("students.findById", id, findStudentById(students, id))

GetStudentById ==
    \E id \in StudentIds \cup {UnknownStudent} :
        OnStudents("students.getById", id, getStudentById(students, id))

FindStudentsByIds ==
    \E ids \in ListsOver(StudentIds \cup {UnknownStudent}, 2) :
        OnStudents("students.findByIds", ids, findStudentsByIds(students, ids))

StudentExists ==
    \E id \in StudentIds \cup {UnknownStudent} :
        OnStudents("students.exists", id, studentExists(students, id))

FindSessionById ==
    \E id \in {SessionIds[1], SessionIds[2], UnknownSession} :
        OnSessions("sessions.findById", id, findSessionById(sessions, id))

FindSessionsByStudentId ==
    \E id \in {"student-1", UnknownStudent} :
        OnSessions("sessions.findByStudentId", id,
                   [err |-> NoError, ret |-> findByStudentId(sessions, id),
                    self |-> sessions])

FindTutorById ==
    \E id \in {"tutor-1", UnknownTutor} :
        /\ Query("tutors.findById", id,
                 [err |-> NoError,
                  ret |-> IF MapHas(tutors, id) THEN findTutorById(tutors, id) ELSE NoTutor])
        /\ UNCHANGED <<students, sessions, now, slotVars, patternVars, validateVars, tutorVars, loopVars, viewVars>>

InitializeSessions ==
    \E sessionsData \in ListsOver(StoredSessions, MaxRecs) :
        OnSessions("sessions.initialize", sessionsData,
                   [err |-> NoError, ret |-> Undefined,
                    self |-> initializeSessions(sessions, sessionsData)])

AddSession ==
    \E sessionData \in StoredSessions :
        OnSessions("sessions.add", sessionData, addSession(sessions, sessionData))

\* calls on the one session of SpecSession
TheSession == sessions[1].value

OnSession(op, arg, ret) ==
    /\ Query(op, arg, [err |-> NoError, ret |-> ret])
    /\ UNCHANGED <<students, sessions, now, slotVars, patternVars, validateVars, tutorVars, loopVars, viewVars>>

IsUpcoming == OnSession("isUpcoming", 0, isUpcoming(TheSession, now))

IsActive == OnSession("isActive", 0, isActive(TheSession, now))

CanJoin ==
    \E minutesBefore \in JoinMargins :
        OnSession("canJoin", minutesBefore, canJoin(TheSession, minutesBefore, now))

GetUpcomingForStudent ==
    \E id \in StudentIds \cup {UnknownStudent} :
        OnSessions("getUpcomingForStudent", id, getUpcomingForStudent(sessions, id, now))

GetUpcomingForTutor ==
    \E id \in {"tutor-1", "tutor-2", UnknownTutor} :
        OnSessions("getUpcomingForTutor", id, getUpcomingForTutor(sessions, id, now))

GetNextSessionForStudent ==
    \E id \in StudentIds \cup {UnknownStudent} :
        OnSessions("getNextSessionForStudent", id,
                   getNextSessionForStudent(sessions, id, now))

GetNextSessionForTutor ==
    \E id \in {"tutor-1", "tutor-2", UnknownTutor} :
        OnSessions("getNextSessionForTutor", id,
                   getNextSessionForTutor(sessions, id, now))

\* Date.now(): milliseconds of an epoch far from the ids of the fixture
dateNow(clock) == 1000 + clock

\* ScheduleSession.handleSubmit once the form is complete: the simulated API
\* call takes time, then the session is built and added
confirmBooking(m, tutorId, modality, startTime, clock) ==
    addSession(m, [id |-> "session-" \o ToString(dateNow(clock)),
                   tutorId |-> tutorId, modality |-> modality,
                   studentId |-> "student-1", status |-> "upcoming",
                   startTime |-> startTime, endTime |-> startTime + 1])

ConfirmBooking ==
    /\ now < MaxNow
    /\ \E modality \in {"online", "in_person"} :
          LET r == confirmBooking(sessions, "tutor-1", modality, MaxNow + 1, now + 1)
          IN  /\ qlast' = <<"confirmBooking", modality, now + 1, r.err, r.ret>>
              /\ sessions' = r.self
    /\ now' = now + 1
    /\ UNCHANGED <<students, slotVars, patternVars, validateVars, tutorVars, loopVars, viewVars>>

SessionCount ==
    OnSessions("sessions.count", 0,
               [err |-> NoError, ret |-> MapSize(sessions), self |-> sessions])

NoQuery == <<"none", 0, 0, NoError, Undefined>>

IdleStores ==
    /\ students = MapClear
    /\ sessions = MapClear
    /\ now = 0
    /\ qlast = NoQuery

----------------------------------------------------------------------------
(* Specifications *)

IdleSlot ==
    TimeSlot([id |-> "slot-1", tutorId |-> "tutor-1", patternId |-> NoPattern,
              start |-> 9 * MinutesPerHour, end |-> 10 * MinutesPerHour,
              modality |-> "online", capacity |-> 1, booked |-> 0,
              isActive |-> TRUE])

IdleInput ==
    [modality |-> "online", capacity |-> 1, isActive |-> TRUE,
     label |-> "undefined", days |-> <<1>>, startHour |-> 9, startMinute |-> 0,
     endHour |-> 10, endMinute |-> 0, durationMinutes |-> 60]

Constructed == [op |-> "new", recv |-> 0, arg |-> 0, err |-> NoError, res |-> 1]

----------------------------------------------------------------------------
(* generateSlotsForWeek, one test or one loop body at a time *)

NoRun ==
    [slots |-> <<>>, p |-> create("tutor-1", IdleInput, 0), date |-> 0,
     currentMinutes |-> 0, weekStart |-> 0, k |-> 0, pc |-> "idle"]

\* inputs whose duration or capacity is the number NaN
NaNInputs ==
    { [modality |-> "online", capacity |-> c, isActive |-> TRUE,
       label |-> "undefined", days |-> <<1, 3>>, startHour |-> 9, startMinute |-> 0,
       endHour |-> 12, endMinute |-> 0, durationMinutes |-> dur] :
        dur \in {NaN, 60}, c \in {NaN, 3} }

\* the patterns that create yields from an input that validate accepts
AcceptedPatterns ==
    { create("tutor-1", in, 0) : in \in { x \in Inputs \cup NaNInputs : validate(x) = Null } }

\* a caller enters generateSlotsForWeek
CallGenerate ==
    /\ run.pc \in {"idle", "done"}
    /\ \E p \in AcceptedPatterns, ws \in WeekStarts :
          run' = [slots |-> <<>>, p |-> p, date |-> 0, currentMinutes |-> 0,
                  weekStart |-> ws, k |-> 0, pc |-> "entry"]
    /\ UNCHANGED <<slotVars, patternVars, validateVars, tutorVars, storeVars, viewVars>>

\* if (!this._isActive) return []; const slots = []
EnterGenerate ==
    /\ run.pc = "entry"
    /\ run' = IF ~run.p.isActive
              THEN [run EXCEPT !.pc = "done"]
              ELSE [run EXCEPT !.pc = "for", !.k = 1]
    /\ UNCHANGED <<slotVars, patternVars, validateVars, tutorVars, storeVars, viewVars>>

\* for (const dayOfWeek of this._days): the next day, or return slots
ForDay ==
    /\ run.pc = "for"
    /\ run' = IF run.k > Len(run.p.days)
              THEN [run EXCEPT !.pc = "done"]
              ELSE [run EXCEPT !.pc = "while",
                               !.date = addDays(run.weekStart, dayOffset(run.p.days[run.k])),
                               !.currentMinutes = startTimeMinutes(run.p)]
    /\ UNCHANGED <<slotVars, patternVars, validateVars, tutorVars, storeVars, viewVars>>

\* currentMinutes += this._durationMinutes
advance_stalled(p, currentMinutes) == currentMinutes

advance(p, currentMinutes) == Plus(currentMinutes, p.durationMinutes)

\* the test of the while loop, then its body or the end of the day
WhileSlot ==
    /\ run.pc = "while"
    /\ run' = IF Le(Plus(run.currentMinutes, run.p.durationMinutes), endTimeMinutes(run.p))
              THEN LET startHour == run.currentMinutes \div MinutesPerHour
                       startMin == run.currentMinutes % MinutesPerHour
                       endMinutes == run.currentMinutes + run.p.durationMinutes
                       endHour == endMinutes \div MinutesPerHour
                       endMin == endMinutes % MinutesPerHour
                       start == setMinutes(setHours(run.date, startHour), startMin)
                       end == setMinutes(setHours(run.date, endHour), endMin)
                   IN  [run EXCEPT !.slots = Append(run.slots, [start |-> start, end |-> end]),
                                   !.currentMinutes = advance(run.p, run.currentMinutes)]
              ELSE [run EXCEPT !.pc = "for", !.k = run.k + 1]
    /\ UNCHANGED <<slotVars, patternVars, validateVars, tutorVars, storeVars, viewVars>>

IdleLoop == run = NoRun

----------------------------------------------------------------------------
(* Text of an input element: a sequence of characters *)

Digits == <<"0", "1", "2", "3", "4", "5", "6", "7", "8", "9">>

IsDigit(ch) == \E d \in DOMAIN Digits : Digits[d] = ch

DigitOf(ch) == (CHOOSE d \in DOMAIN Digits : Digits[d] = ch) - 1

\* the number of digits of text from position i on
RECURSIVE DigitRun(_, _)
DigitRun(text, i) ==
    IF i <= Len(text) /\ IsDigit(text[i]) THEN 1 + DigitRun(text, i + 1) ELSE 0

\* the value of the n digits of text from position i on
RECURSIVE Decimal(_, _, _)
Decimal(text, i, n) ==
    IF n = 0 THEN 0
    ELSE Decimal(text, i, n - 1) * 10 + DigitOf(text[i + n - 1])

RECURSIVE Pow10(_)
Pow10(n) == IF n = 0 THEN 1 ELSE 10 * Pow10(n - 1)

\* parseInt(text, 10): an optional sign, then the longest run of digits;
\* NaN when there is no digit there.  No text in use starts with white space.
parseInt(text) ==
    LET signed == Len(text) >= 1 /\ text[1] \in {"-", "+"}
        i == IF signed THEN 2 ELSE 1
        n == DigitRun(text, i)
    IN  IF n = 0 THEN NaN
        ELSE IF signed /\ text[1] = "-" THEN 0 - Decimal(text, i, n)
        ELSE Decimal(text, i, n)

\* text.split(":")
RECURSIVE split(_)
split(text) ==
    IF \A i \in DOMAIN text : text[i] # ":" THEN <<text>>
    ELSE LET at == CHOOSE i \in DOMAIN text :
                       text[i] = ":" /\ \A j \in 1..(i - 1) : text[j] # ":"
         IN  <<SubSeq(text, 1, at - 1)>> \o split(SubSeq(text, at + 1, Len(text)))

RECURSIVE digitsOf(_)
digitsOf(n) ==
    IF n < 10 THEN <<Digits[n + 1]>>
    ELSE Append(digitsOf(n \div 10), Digits[(n % 10) + 1])

\* `${n}` and String(n) of a whole number or NaN
numberToString(n) ==
    IF isNaN(n) THEN <<"N", "a", "N">>
    ELSE IF n < 0 THEN <<"-">> \o digitsOf(0 - n)
    ELSE digitsOf(n)

\* The value of an <input type="number"> holding text, as the fraction
\* num / den: text is a valid floating-point number when it is an optional
\* "-", then digits or "." digits or both, then an optional exponent.
numberValue(text) ==
    LET neg == Len(text) >= 1 /\ text[1] = "-"
        i == IF neg THEN 2 ELSE 1
        ni == DigitRun(text, i)
        j == i + ni
        hasFrac == j <= Len(text) /\ text[j] = "."
        nf == IF hasFrac THEN DigitRun(text, j + 1) ELSE 0
        k == IF hasFrac THEN j + 1 + nf ELSE j
        hasExp == k <= Len(text) /\ text[k] \in {"e", "E"}
        expSigned == hasExp /\ k + 1 <= Len(text) /\ text[k + 1] \in {"-", "+"}
        expNeg == expSigned /\ text[k + 1] = "-"
        l == IF expSigned THEN k + 2 ELSE k + 1
        ne == IF hasExp THEN DigitRun(text, l) ELSE 0
        stop == IF hasExp THEN l + ne ELSE k
        valid == /\ ni > 0 \/ hasFrac
                 /\ hasFrac => nf > 0
                 /\ hasExp => ne > 0
                 /\ stop = Len(text) + 1
        mantissa == Decimal(text, i, ni) * Pow10(nf) + Decimal(text, j + 1, nf)
        exponent == (IF expNeg THEN 0 - Decimal(text, l, ne) ELSE Decimal(text, l, ne)) - nf
        signed == IF neg THEN 0 - mantissa ELSE mantissa
    IN  IF ~valid THEN [valid |-> FALSE, num |-> 0, den |-> 1]
        ELSE IF exponent >= 0
        THEN [valid |-> TRUE, num |-> signed * Pow10(exponent), den |-> 1]
        ELSE [valid |-> TRUE, num |-> signed, den |-> Pow10(0 - exponent)]

\* required, min and step of an <input type="number">: the form is not
\* submitted unless the text is a number, at least min, and a whole number
\* of steps above min
numberAllowed(text, min, step) ==
    LET v == numberValue(text)
    IN  /\ text # <<>>
        /\ v.valid
        /\ v.num >= min * v.den
        /\ (v.num - min * v.den) % (step * v.den) = 0

----------------------------------------------------------------------------
(* WeeklyPatternForm *)

\* the form as it opens for a new pattern, with two weekdays ticked
DefaultFill ==
    [capacity |-> <<"3">>, isActive |-> TRUE,
     startTime |-> <<"0", "9", ":", "0", "0">>, endTime |-> <<"1", "2", ":", "0", "0">>,
     selectedDays |-> <<3, 0>>, duration |-> <<"6", "0">>, modalityValue |-> "online"]

DurationTexts ==
    { <<"3", "e", "1">>, <<".", "3", "e", "2">>, <<"1", "9", "5">>, <<"1", "0">> }
CapacityTexts ==
    { <<"0", ".", "5", "e", "1">>, <<".", "5", "e", "1">>, <<"0">> }

\* the state of the form when it is submitted: the default, or the default
\* with one field changed
FormFills ==
    {DefaultFill}
        \cup {[DefaultFill EXCEPT !.selectedDays = <<>>]}
        \cup {[DefaultFill EXCEPT !.endTime = <<"0", "9", ":", "0", "0">>]}
        \cup {[DefaultFill EXCEPT !.duration = du] : du \in DurationTexts}
        \cup {[DefaultFill EXCEPT !.capacity = c] : c \in CapacityTexts}
        \cup {[DefaultFill EXCEPT !.isActive = FALSE]}

\* the attributes of the inputs: the browser submits the form only when
\* every field satisfies them
formAllowed(fill) ==
    /\ fill.startTime # <<>>
    /\ fill.endTime # <<>>
    /\ numberAllowed(fill.duration, 15, 15)
    /\ numberAllowed(fill.capacity, 1, 1)

\* WeeklyPatternForm.handleSubmit up to the call of onSubmit: formError is
\* Null when onSubmit(input) is called
handleSubmit(fill) ==
    LET days == sortAscending(fill.selectedDays)
        startParts == [i \in DOMAIN split(fill.startTime) |-> parseInt(split(fill.startTime)[i])]
        endParts == [i \in DOMAIN split(fill.endTime) |-> parseInt(split(fill.endTime)[i])]
    IN  IF Len(startParts) # 2 \/ Len(endParts) # 2
        THEN [formError |-> "Times must be in HH:MM format.", input |-> IdleInput]
        ELSE LET durationMinutes == parseInt(fill.duration)
                 capacityValue == parseInt(fill.capacity)
                 in == [label |-> NoPattern, days |-> days,
                        startHour |-> startParts[1], startMinute |-> startParts[2],
                        endHour |-> endParts[1], endMinute |-> endParts[2],
                        durationMinutes |-> durationMinutes,
                        modality |-> fill.modalityValue,
                        capacity |-> capacityValue, isActive |-> fill.isActive]
             IN  [formError |-> validate(in), input |-> in]

----------------------------------------------------------------------------
(* TutorAvailability *)

MaxClicks == 2     \* handlers of the page that run
MaxWeek == 1       \* weeks on either side of the current one
MaxRows == 1       \* slots of one pattern, from its first, that are operated

\* user?.tutorId ?? "tutor-1"
tutorId == "tutor-1"

mockPatternData ==
    << [id |-> "pattern-1", tutorId |-> "tutor-1", label |-> "Morning online slots",
        days |-> <<1, 2, 3, 4, 5>>, startHour |-> 9, startMinute |-> 0,
        endHour |-> 12, endMinute |-> 0, durationMinutes |-> 60,
        modality |-> "online", capacity |-> 3, isActive |-> TRUE],
       [id |-> "pattern-2", tutorId |-> "tutor-1", label |-> "Afternoon in-person sessions",
        days |-> <<2, 4>>, startHour |-> 14, startMinute |-> 0,
        endHour |-> 17, endMinute |-> 0, durationMinutes |-> 90,
        modality |-> "in_person", capacity |-> 5, isActive |-> TRUE],
       [id |-> "pattern-3", tutorId |-> "tutor-1", label |-> "Weekend review sessions",
        days |-> <<6>>, startHour |-> 10, startMinute |-> 0,
        endHour |-> 12, endMinute |-> 0, durationMinutes |-> 60,
        modality |-> "online", capacity |-> 4, isActive |-> FALSE] >>

getInitialPatterns == [i \in DOMAIN mockPatternData |-> WeeklyPattern(mockPatternData[i])]

Pad2(n) == IF n < 10 THEN "0" \o ToString(n) ELSE ToString(n)

\* Date.prototype.toISOString: the day, "T", then hours and minutes in two
\* digits each; the number of the day stands for its year, month and day
toISOString(date) ==
    ToString(date \div MinutesPerDay) \o "T"
        \o Pad2((date % MinutesPerDay) \div MinutesPerHour) \o ":"
        \o Pad2(date % MinutesPerHour)

fromPattern_startOnly(tid, patternId, start, end, modality, capacity, booked, active) ==
    TimeSlot([id |-> "slot-" \o toISOString(start),
              tutorId |-> tid, patternId |-> patternId, start |-> start, end |-> end,
              modality |-> modality, capacity |-> capacity, booked |-> booked,
              isActive |-> active])

\* static TimeSlot.fromPattern
fromPattern(tid, patternId, start, end, modality, capacity, booked, active) ==
    TimeSlot([id |-> "slot-" \o toISOString(start) \o "-" \o patternId,
              tutorId |-> tid, patternId |-> patternId, start |-> start, end |-> end,
              modality |-> modality, capacity |-> capacity, booked |-> booked,
              isActive |-> active])

\* what the calls of Math.random of one render yield, call by call
RandomDraws == {"odd", "even"}

\* Math.floor(Math.random() * 2) of call i
randomBooked(draw, i) == IF draw = "odd" THEN i % 2 ELSE (i + 1) % 2

\* an entry of slotOverrides: { capacity?, isActive? }
NoOverride ==
    [capacity |-> 0, isActive |-> FALSE, hasCapacity |-> FALSE, hasIsActive |-> FALSE]

\* the two for loops of the slots memo, from pattern k on
RECURSIVE generatedSlots(_, _, _)
generatedSlots(ps, ws, k) ==
    IF k > Len(ps) THEN <<>>
    ELSE (IF ~ps[k].isActive THEN <<>>
          ELSE LET patternSlots == generateSlotsForWeek(ps[k], ws).ret
               IN  [i \in DOMAIN patternSlots |->
                       [pattern |-> ps[k], start |-> patternSlots[i].start,
                        end |-> patternSlots[i].end]])
         \o generatedSlots(ps, ws, k + 1)

\* "Apply any overrides"
applyOverride(slot, overrides) ==
    IF ~MapHas(overrides, slot.id) THEN slot
    ELSE LET override == MapGet(overrides, slot.id)
             sized == IF override.hasCapacity
                      THEN updateCapacity(slot, override.capacity).ret
                      ELSE slot
         IN  IF ~override.hasIsActive THEN sized
             ELSE LET updatedSlot == IF override.isActive THEN sized
                                     ELSE toggleActive(sized).ret
                  IN  IF ~override.isActive /\ updatedSlot.isActive
                      THEN toggleActive(updatedSlot).ret
                      ELSE updatedSlot

\* the slots memo; the modality tab stays on "all"
slotsMemo(ps, ws, overrides, draw) ==
    LET generated == generatedSlots(ps, ws, 1)
    IN  [i \in DOMAIN generated |->
            applyOverride(
                fromPattern(tutorId, generated[i].pattern.id, generated[i].start,
                            generated[i].end, generated[i].pattern.modality,
                            generated[i].pattern.capacity, randomBooked(draw, i), TRUE),
                overrides)]

handleToggleSlot(prev, slot) ==
    LET existing == IF MapHas(prev, slot.id) THEN MapGet(prev, slot.id) ELSE NoOverride
    IN  MapSet(prev, slot.id,
               [existing EXCEPT !.hasIsActive = TRUE, !.isActive = ~slot.isActive])

\* the capacity that handleCapacityCommit settles on
commitTarget(slot, typed, rawValue) ==
    LET parsed == parseInt(IF typed THEN rawValue ELSE numberToString(slot.capacity))
    IN  IF isNaN(parsed) THEN slot.capacity ELSE Max(parsed, slot.booked)

handleCapacityCommit(prev, slot, typed, rawValue) ==
    LET target == commitTarget(slot, typed, rawValue)
        existing == IF MapHas(prev, slot.id) THEN MapGet(prev, slot.id) ELSE NoOverride
    IN  IF StrictEq(target, slot.capacity) THEN prev
        ELSE MapSet(prev, slot.id,
                    [existing EXCEPT !.hasCapacity = TRUE, !.capacity = target])

handleTogglePattern(prev, p) ==
    [k \in DOMAIN prev |->
        IF prev[k].id = p.id THEN WeeklyPattern_toggleActive(prev[k]).ret ELSE prev[k]]

handleDeletePattern(prev, p, confirmed) ==
    IF confirmed THEN SelectSeq(prev, LAMBDA q : q.id # p.id) ELSE prev

\* the fields of values that are not undefined
definedFields(values) ==
    [f \in { g \in DOMAIN values : g # "label" \/ values.label # NoPattern } |-> values[f]]

handlePatternSubmit(prev, formMode, formTarget, values, stamp) ==
    IF formMode = "create" THEN Append(prev, create(tutorId, values, stamp))
    ELSE [k \in DOMAIN prev |->
             IF prev[k].id = formTarget.id
             THEN update(prev[k], definedFields(values)).ret
             ELSE prev[k]]

\* date-fns
addWeeks(date, amount) == addDays(date, amount * DaysPerWeek)
subWeeks(date, amount) == addWeeks(date, 0 - amount)

NoHandler == <<"none", Null>>

\* the handler that ran and the formError it left
Handled(op, formError) ==
    /\ clicks' = clicks + 1
    /\ vlast' = <<op, formError>>

\* the slots memo runs again: patterns, weekStart or slotOverrides was set
Render(ps, ws, overrides) ==
    \E draw \in RandomDraws : slots' = slotsMemo(ps, ws, overrides, draw)

\* draftCapacity[slot.id]: undefined until the input is typed into
Drafts ==
    {[typed |-> FALSE, rawValue |-> <<>>]}
        \cup { [typed |-> TRUE, rawValue |-> t] :
                 t \in { <<>>, <<"0">>, <<"7">>, <<"-", "3">> } }

\* the displayed slots that are operated
Operated ==
    { i \in DOMAIN slots :
        Cardinality({ j \in 1..(i - 1) : slots[j].patternId = slots[i].patternId }) < MaxRows }

\* the Switch of a displayed slot
HandleToggleSlot ==
    /\ clicks < MaxClicks
    /\ \E i \in Operated :
          LET next == handleToggleSlot(slotOverrides, slots[i])
          IN  /\ slotOverrides' = next
              /\ Render(patterns, week, next)
    /\ Handled("handleToggleSlot", Null)
    /\ UNCHANGED <<patterns, week>>
    /\ UNCHANGED <<slotVars, patternVars, validateVars, tutorVars, storeVars, loopVars>>

\* the capacity input of a displayed slot loses the focus
HandleCapacityCommit ==
    /\ clicks < MaxClicks
    /\ \E i \in Operated, draft \in Drafts :
          LET next == handleCapacityCommit(slotOverrides, slots[i], draft.typed, draft.rawValue)
          IN  /\ slotOverrides' = next
              /\ IF StrictEq(commitTarget(slots[i], draft.typed, draft.rawValue),
                             slots[i].capacity)
                 THEN slots' = slots
                 ELSE Render(patterns, week, next)
    /\ Handled("handleCapacityCommit", Null)
    /\ UNCHANGED <<patterns, week>>
    /\ UNCHANGED <<slotVars, patternVars, validateVars, tutorVars, storeVars, loopVars>>

HandleTogglePattern ==
    /\ clicks < MaxClicks
    /\ \E k \in DOMAIN patterns :
          LET next == handleTogglePattern(patterns, patterns[k])
          IN  /\ patterns' = next
              /\ Render(next, week, slotOverrides)
    /\ Handled("handleTogglePattern", Null)
    /\ UNCHANGED <<week, slotOverrides>>
    /\ UNCHANGED <<slotVars, patternVars, validateVars, tutorVars, storeVars, loopVars>>

\* window.confirm answers either way
HandleDeletePattern ==
    /\ clicks < MaxClicks
    /\ \E k \in DOMAIN patterns, confirmed \in BOOLEAN :
          LET next == handleDeletePattern(patterns, patterns[k], confirmed)
          IN  /\ patterns' = next
              /\ IF confirmed THEN Render(next, week, slotOverrides) ELSE slots' = slots
    /\ Handled("handleDeletePattern", Null)
    /\ UNCHANGED <<week, slotOverrides>>
    /\ UNCHANGED <<slotVars, patternVars, validateVars, tutorVars, storeVars, loopVars>>

\* The form, opened by "Add pattern" (target 0) or on a pattern of the list,
\* is submitted: handleSubmit of the form, then handlePatternSubmit.
HandlePatternSubmit ==
    /\ clicks < MaxClicks
    /\ \E fill \in FormFills, target \in {0} \cup DOMAIN patterns :
          /\ formAllowed(fill)
          /\ LET r == handleSubmit(fill)
                 next == handlePatternSubmit(patterns,
                            IF target = 0 THEN "create" ELSE "edit",
                            IF target = 0 THEN NoRun.p ELSE patterns[target],
                            r.input, dateNow(clicks))
             IN  IF r.formError # Null
                 THEN /\ patterns' = patterns
                      /\ slots' = slots
                      /\ Handled("handlePatternSubmit", r.formError)
                 ELSE /\ patterns' = next
                      /\ Render(next, week, slotOverrides)
                      /\ Handled("handlePatternSubmit", Null)
    /\ UNCHANGED <<week, slotOverrides>>
    /\ UNCHANGED <<slotVars, patternVars, validateVars, tutorVars, storeVars, loopVars>>

PreviousWeek ==
    /\ clicks < MaxClicks
    /\ subWeeks(week, 1) >= subWeeks(0, MaxWeek)
    /\ week' = subWeeks(week, 1)
    /\ Render(patterns, week', slotOverrides)
    /\ Handled("previousWeek", Null)
    /\ UNCHANGED <<patterns, slotOverrides>>
    /\ UNCHANGED <<slotVars, patternVars, validateVars, tutorVars, storeVars, loopVars>>

\* startOfWeek(new Date(), { weekStartsOn: 1 }): the clock stays in week 0
CurrentWeek ==
    /\ clicks < MaxClicks
    /\ week' = 0
    /\ Render(patterns, week', slotOverrides)
    /\ Handled("currentWeek", Null)
    /\ UNCHANGED <<patterns, slotOverrides>>
    /\ UNCHANGED <<slotVars, patternVars, validateVars, tutorVars, storeVars, loopVars>>

NextWeek ==
    /\ clicks < MaxClicks
    /\ addWeeks(week, 1) <= addWeeks(0, MaxWeek)
    /\ week' = addWeeks(week, 1)
    /\ Render(patterns, week', slotOverrides)
    /\ Handled("nextWeek", Null)
    /\ UNCHANGED <<patterns, slotOverrides>>
    /\ UNCHANGED <<slotVars, patternVars, validateVars, tutorVars, storeVars, loopVars>>

IdleView ==
    /\ patterns = <<>>
    /\ week = 0
    /\ slotOverrides = MapClear
    /\ slots = <<>>
    /\ clicks = 0
    /\ vlast = NoHandler

IdleViews == IdleLoop /\ IdleView

\* one TimeSlot, then any calls on it and on the slots it returns
InitTimeSlot ==
    /\ heap \in { <<s>> : s \in InitialSlots }
    /\ made = <<[op |-> "new", from |-> 0, arg |-> 0]>>
    /\ last = Constructed
    /\ pattern = create("tutor-1", IdleInput, 0)
    /\ hist = <<>>
    /\ input = IdleInput
    /\ vres = NotCalled
    /\ IdleTutors
    /\ IdleStores
    /\ IdleViews

NextTimeSlot == ToggleActive \/ UpdateCapacity \/ AddBooking \/ RemoveBooking

SpecTimeSlot == InitTimeSlot /\ [][NextTimeSlot]_vars

\* one pattern created from an input that validate accepts
InitPattern ==
    /\ heap = <<IdleSlot>>
    /\ made = <<[op |-> "new", from |-> 0, arg |-> 0]>>
    /\ last = Constructed
    /\ pattern \in { create("tutor-1", in, 0) : in \in { x \in Inputs : validate(x) = Null } }
    /\ hist = <<>>
    /\ input = IdleInput
    /\ vres = NotCalled
    /\ IdleTutors
    /\ IdleStores
    /\ IdleViews

NextPattern == GenerateSlots \/ TogglePattern

SpecPattern == InitPattern /\ [][NextPattern]_vars

\* any input, handed to validate once
InitValidate ==
    /\ heap = <<IdleSlot>>
    /\ made = <<[op |-> "new", from |-> 0, arg |-> 0]>>
    /\ last = Constructed
    /\ pattern = create("tutor-1", IdleInput, 0)
    /\ hist = <<>>
    /\ input \in Inputs
    /\ vres = NotCalled
    /\ IdleTutors
    /\ IdleStores
    /\ IdleViews

NextValidate == Validate

SpecValidate == InitValidate /\ [][NextValidate]_vars

\* a repository filled by initialize, with the fixture or with any tutors
InitTutor ==
    /\ heap = <<IdleSlot>>
    /\ made = <<[op |-> "new", from |-> 0, arg |-> 0]>>
    /\ last = Constructed
    /\ pattern = create("tutor-1", IdleInput, 0)
    /\ hist = <<>>
    /\ input = IdleInput
    /\ vres = NotCalled
    /\ tutors \in { initializeTutors(MapClear, l) :
                      l \in {MockTutors} \cup UNION { TutorLists(n) : n \in 0..MaxTutors } }
    /\ mlast = NoMatch
    /\ IdleStores
    /\ IdleViews

NextTutor == AutoMatch

SpecTutor == InitTutor /\ [][NextTutor]_vars

IdleRest ==
    /\ heap = <<IdleSlot>>
    /\ made = <<[op |-> "new", from |-> 0, arg |-> 0]>>
    /\ last = Constructed
    /\ pattern = create("tutor-1", IdleInput, 0)
    /\ hist = <<>>
    /\ input = IdleInput
    /\ vres = NotCalled

\* the student repository filled by initialize, the session repository empty
InitStore ==
    /\ IdleRest
    /\ IdleViews
    /\ tutors = initializeTutors(MapClear, MockTutors)
    /\ mlast = NoMatch
    /\ students \in { initializeStudents(MapClear, l) : l \in ListsOver(StudentRecords, 2) }
    /\ sessions = MapClear
    /\ now = 0
    /\ qlast = NoQuery

NextStore ==
    \/ FindStudentById
    \/ GetStudentById
    \/ FindStudentsByIds
    \/ StudentExists
    \/ FindSessionById
    \/ FindSessionsByStudentId
    \/ FindTutorById
    \/ InitializeSessions
    \/ AddSession

SpecStore == InitStore /\ [][NextStore]_vars

\* one session, and the clock running past it
InitSession ==
    /\ IdleRest
    /\ IdleViews
    /\ IdleTutors
    /\ students = MapClear
    /\ sessions \in { initializeSessions(MapClear, <<d>>) : d \in SessionShapes }
    /\ now = 0
    /\ qlast = NoQuery

NextSession == Tick \/ IsUpcoming \/ IsActive \/ CanJoin

SpecSession == InitSession /\ [][NextSession]_vars

\* a session repository filled by initialize, and the clock running
InitUpcoming ==
    /\ IdleRest
    /\ IdleViews
    /\ IdleTutors
    /\ students = MapClear
    /\ sessions \in { initializeSessions(MapClear, l) :
                        l \in UNION { SessionLists(n) : n \in 0..MaxSessions } }
    /\ now = 0
    /\ qlast = NoQuery

NextUpcoming ==
    \/ Tick
    \/ GetUpcomingForStudent
    \/ GetUpcomingForTutor
    \/ GetNextSessionForStudent
    \/ GetNextSessionForTutor

SpecUpcoming == InitUpcoming /\ [][NextUpcoming]_vars

\* the session repository after its last initialize: bookings, adds, queries
InitBooking ==
    /\ IdleRest
    /\ IdleViews
    /\ IdleTutors
    /\ students = MapClear
    /\ sessions \in { initializeSessions(MapClear, l) : l \in ListsOver(StoredSessions, 2) }
    /\ now = 0
    /\ qlast = NoQuery

NextBooking ==
    \/ ConfirmBooking
    \/ AddSession
    \/ FindSessionById
    \/ FindSessionsByStudentId
    \/ GetUpcomingForStudent
    \/ GetNextSessionForStudent
    \/ SessionCount

SpecBooking == InitBooking /\ [][NextBooking]_vars

\* one activation of generateSlotsForWeek after another; an activation that
\* has started runs on until it returns
InitLoop ==
    /\ IdleRest
    /\ IdleTutors
    /\ IdleStores
    /\ IdleView
    /\ run = NoRun

StepGenerate == EnterGenerate \/ ForDay \/ WhileSlot

NextLoop == CallGenerate \/ EnterGenerate \/ ForDay \/ WhileSlot

SpecLoop == InitLoop /\ [][NextLoop]_vars /\ WF_vars(StepGenerate)

\* the availability page after its first render, then its handlers
InitView ==
    /\ IdleRest
    /\ IdleTutors
    /\ IdleStores
    /\ IdleLoop
    /\ patterns = getInitialPatterns
    /\ week = 0
    /\ slotOverrides = MapClear
    /\ \E draw \in RandomDraws : slots = slotsMemo(getInitialPatterns, 0, MapClear, draw)
    /\ clicks = 0
    /\ vlast = NoHandler

NextView ==
    \/ HandleToggleSlot
    \/ HandleCapacityCommit
    \/ HandleTogglePattern
    \/ HandleDeletePattern
    \/ HandlePatternSubmit
    \/ PreviousWeek
    \/ CurrentWeek
    \/ NextWeek

SpecView == InitView /\ [][NextView]_vars

----------------------------------------------------------------------------
(* Properties of TimeSlot, under SpecTimeSlot *)

\* C1. Capacity floor: every slot there is, the initial one and every slot
\* returned by updateCapacity, addBooking or removeBooking, has
\* 0 <= booked <= capacity; a failed call returns no slot.
C1_CapacityFloor ==
    /\ \A i \in DOMAIN heap :
          0 <= heap[i].booked /\ heap[i].booked <= heap[i].capacity
    /\ last.err # NoError => last.res = 0

\* a slot that came out of updateCapacity(n) with n below the bookings, and a
\* slot that addBooking filled up
C1_Witness ==
    /\ \E i \in DOMAIN heap :
          /\ made[i].op = "updateCapacity"
          /\ made[i].arg < heap[made[i].from].booked
    /\ \E j \in DOMAIN heap :
          /\ made[j].op = "addBooking"
          /\ heap[j].booked = heap[j].capacity

\* C2. addBooking on a slot with booked >= capacity throws the Conflict
\* error, returns no slot and leaves the heap (the receiver included) as it
\* was; on a slot with booked < capacity it returns a slot with booked + 1.
C2_AddBooking ==
    [][ last'.op = "addBooking" =>
          LET r == heap[last'.recv]
          IN  IF r.booked >= r.capacity
              THEN /\ last'.err = Conflict
                   /\ last'.res = 0
                   /\ heap' = heap
              ELSE /\ last'.err = NoError
                   /\ Len(heap') = Len(heap) + 1
                   /\ heap'[last'.res].booked = r.booked + 1
                   /\ heap'[last'.recv] = r ]_vars

\* addBooking has thrown on a full slot that an earlier addBooking returned
C2_Witness ==
    /\ last.op = "addBooking"
    /\ last.err = Conflict
    /\ heap[last.recv].booked = heap[last.recv].capacity
    /\ heap[last.recv].capacity > 0
    /\ made[last.recv].op = "addBooking"

\* C3. removeBooking on a slot with booked = 0 throws the Invalid-state error
\* and leaves the slot as it was; on a slot with booked > 0 it returns a slot
\* with booked - 1 and the same capacity.
C3_RemoveBooking ==
    [][ last'.op = "removeBooking" =>
          LET r == heap[last'.recv]
          IN  IF r.booked = 0
              THEN /\ last'.err = InvalidState
                   /\ last'.res = 0
                   /\ heap' = heap
              ELSE /\ r.booked > 0
                   /\ last'.err = NoError
                   /\ heap'[last'.res].booked = r.booked - 1
                   /\ heap'[last'.res].capacity = r.capacity ]_vars

\* removeBooking has thrown on a slot that removeBooking had emptied
C3_Witness ==
    /\ last.op = "removeBooking"
    /\ last.err = InvalidState
    /\ heap[last.recv].booked = 0
    /\ made[last.recv].op = "removeBooking"

\* C4. updateCapacity(n) never throws; the slot it returns has capacity
\* max(n, booked of the receiver) and the receiver's booked, for n below the
\* bookings, n = 0 and n < 0 too.
C4_UpdateCapacity ==
    [][ last'.op = "updateCapacity" =>
          LET r == heap[last'.recv]
              n == last'.arg
          IN  /\ last'.err = NoError
              /\ last'.res \in DOMAIN heap'
              /\ heap'[last'.res].capacity = (IF n >= r.booked THEN n ELSE r.booked)
              /\ heap'[last'.res].booked = r.booked ]_vars

\* updateCapacity was called with a negative n on a slot that has bookings
C4_Witness ==
    /\ last.op = "updateCapacity"
    /\ last.arg < 0
    /\ heap[last.recv].booked > 0
    /\ heap[last.res].capacity = heap[last.recv].booked

\* C5. Booking round trip: removeBooking on the slot that addBooking returned
\* never throws, and the slot it returns has the booked, capacity and isActive
\* of the slot addBooking was called on.
C5_RoundTrip ==
    /\ \A k \in DOMAIN heap :
          (made[k].op = "removeBooking" /\ made[made[k].from].op = "addBooking") =>
              LET o == heap[made[made[k].from].from]
              IN  /\ heap[k].booked = o.booked
                  /\ heap[k].capacity = o.capacity
                  /\ heap[k].isActive = o.isActive
    /\ (last.op = "removeBooking" /\ made[last.recv].op = "addBooking") =>
          last.err = NoError

\* slot.addBooking().removeBooking() was evaluated on a slot with bookings
C5_Witness ==
    \E k \in DOMAIN heap :
        /\ made[k].op = "removeBooking"
        /\ made[made[k].from].op = "addBooking"
        /\ made[made[k].from].from = 1
        /\ heap[1].booked > 0
        /\ heap[1].booked < heap[1].capacity

\* the field a method is allowed to change
TargetField(op) ==
    CASE op = "toggleActive" -> "isActive"
      [] op = "updateCapacity" -> "capacity"
      [] op = "addBooking" -> "booked"
      [] op = "removeBooking" -> "booked"

\* C6. Value semantics: a call changes no field of any existing slot, the
\* receiver included; the slot it returns is a new object that has the
\* receiver's value in every field but the one the method targets, and
\* toggleActive always flips isActive.
C6_ValueSemantics ==
    [][ /\ \A i \in DOMAIN heap : heap'[i] = heap[i]
        /\ Len(heap') > Len(heap) =>
              LET r == heap[last'.recv]
                  n == heap'[last'.res]
              IN  /\ last'.res = Len(heap) + 1
                  /\ \A f \in (DOMAIN r) \ {TargetField(last'.op)} : n[f] = r[f]
                  /\ DOMAIN n = DOMAIN r
                  /\ last'.op = "toggleActive" => n.isActive = ~r.isActive ]_vars

\* toggleActive, updateCapacity and addBooking have each returned a slot that
\* differs from its receiver
C6_Witness ==
    /\ Len(heap) = 3
    /\ made[2].op = "updateCapacity"
    /\ heap[2].capacity # heap[made[2].from].capacity
    /\ made[3].op = "toggleActive"
    /\ made[3].from = 2
    /\ heap[3].isActive # heap[2].isActive
    /\ heap[3].patternId = "pattern-1"

----------------------------------------------------------------------------
(* Properties of WeeklyPattern, under SpecPattern and SpecValidate *)

IsGenerate(e) == e.op = "generateSlotsForWeek"
IsToggle(e) == e.op = "toggleActive"

DateOf(date) == date \div MinutesPerDay
TimeOf(date) == date % MinutesPerDay

\* C7. Slot count law: generateSlotsForWeek on an active pattern returns
\* floor((endTimeMinutes - startTimeMinutes) / durationMinutes) slots on the
\* date of each selected day, and that count times the number of selected
\* days in all; days [1,3,5], 09:00-12:00, 60 minutes gives 9 slots, which
\* start at 09:00, 10:00 and 11:00 on each day.
C7_SlotCount ==
    \A k \in DOMAIN hist :
        (IsGenerate(hist[k]) /\ hist[k].active) =>
            LET ret == hist[k].ret
                perDay == (endTimeMinutes(pattern) - startTimeMinutes(pattern))
                              \div pattern.durationMinutes
                onDate(d) == { i \in DOMAIN ret :
                                 DateOf(ret[i].start) = DateOf(hist[k].arg) + dayOffset(d) }
            IN  /\ slotsPerDay(pattern) = perDay
                /\ \A j \in DOMAIN pattern.days :
                      Cardinality(onDate(pattern.days[j])) = perDay
                /\ Len(ret) = perDay * Len(pattern.days)
                /\ ( /\ pattern.days = <<1, 3, 5>>
                     /\ startTimeMinutes(pattern) = 9 * MinutesPerHour
                     /\ endTimeMinutes(pattern) = 12 * MinutesPerHour
                     /\ pattern.durationMinutes = 60 ) =>
                       /\ Len(ret) = 9
                       /\ \A d \in {1, 3, 5} :
                             { TimeOf(ret[i].start) : i \in onDate(d) }
                                 = {9 * MinutesPerHour, 10 * MinutesPerHour,
                                    11 * MinutesPerHour}

\* the pattern of the scenario has generated its 9 slots
C7_Witness ==
    \E k \in DOMAIN hist :
        /\ IsGenerate(hist[k])
        /\ hist[k].active
        /\ pattern.days = <<1, 3, 5>>
        /\ startTimeMinutes(pattern) = 9 * MinutesPerHour
        /\ endTimeMinutes(pattern) = 12 * MinutesPerHour
        /\ pattern.durationMinutes = 60
        /\ Len(hist[k].ret) = 9

\* C8. Slot generation idempotence: generateSlotsForWeek changes no field of
\* the pattern, and a call that follows a call with the same weekStart
\* returns the same sequence of {start, end} pairs.
C8_Idempotent ==
    [][ (hist' # <<>> /\ IsGenerate(hist'[Len(hist')])) =>
          /\ pattern' = pattern
          /\ ( /\ hist # <<>>
               /\ IsGenerate(hist[Len(hist)])
               /\ hist[Len(hist)].arg = hist'[Len(hist')].arg ) =>
                 hist'[Len(hist')].ret = hist[Len(hist)].ret ]_vars

\* two calls in a row with the same weekStart that returned slots
C8_Witness ==
    \E k \in DOMAIN hist :
        /\ k + 1 \in DOMAIN hist
        /\ IsGenerate(hist[k]) /\ IsGenerate(hist[k + 1])
        /\ hist[k].arg = hist[k + 1].arg
        /\ Len(hist[k + 1].ret) > 1

\* C9. An inactive pattern generates no slots, for every weekStart; after
\* toggleActive on an active pattern nothing is generated; after a second
\* toggleActive the slots generated are those generated before the first.
C9_InactiveEmpty ==
    /\ \A k \in DOMAIN hist :
          (IsGenerate(hist[k]) /\ ~hist[k].active) => hist[k].ret = <<>>
    /\ \A k \in DOMAIN hist :
          (IsToggle(hist[k]) /\ hist[k].active /\ k + 1 \in DOMAIN hist
              /\ IsGenerate(hist[k + 1])) => hist[k + 1].ret = <<>>
    /\ \A k \in DOMAIN hist :
          ( /\ k + 3 \in DOMAIN hist
            /\ IsGenerate(hist[k]) /\ hist[k].active
            /\ IsToggle(hist[k + 1]) /\ IsToggle(hist[k + 2])
            /\ IsGenerate(hist[k + 3])
            /\ hist[k + 3].arg = hist[k].arg ) => hist[k + 3].ret = hist[k].ret

\* slots were generated, the pattern was toggled off and on, and slots were
\* generated again for the same week
C9_Witness ==
    /\ Len(hist) >= 4
    /\ \E k \in DOMAIN hist :
          /\ k + 3 \in DOMAIN hist
          /\ IsGenerate(hist[k]) /\ hist[k].active
          /\ hist[k].ret # <<>>
          /\ IsToggle(hist[k + 1]) /\ IsToggle(hist[k + 2])
          /\ IsGenerate(hist[k + 3])
          /\ hist[k + 3].arg = hist[k].arg

\* C10. validate returns a message or null; the message exactly when no day
\* is selected, or the end of the range is not after its start, or
\* durationMinutes < 15, or durationMinutes exceeds the range, or
\* capacity < 1.
C10_Validate ==
    vres # NotCalled =>
        LET startOfRange == input.startHour * 60 + input.startMinute
            endOfRange == input.endHour * 60 + input.endMinute
            rejected == \/ input.days = <<>>
                        \/ endOfRange <= startOfRange
                        \/ input.durationMinutes < 15
                        \/ input.durationMinutes > endOfRange - startOfRange
                        \/ input.capacity < 1
        IN  /\ vres \in {Null, "Select at least one weekday.",
                         "End time must be after start time.",
                         "Duration must be at least 15 minutes.",
                         "Duration must fit within the time range.",
                         "Capacity must be at least 1."}
            /\ (vres # Null) <=> rejected

\* validate has rejected an input whose range ends where it starts
C10_Witness ==
    /\ vres = "End time must be after start time."
    /\ input.days # <<>>
    /\ input.endHour * 60 + input.endMinute = input.startHour * 60 + input.startMinute
    /\ input.durationMinutes >= 15
    /\ input.capacity >= 1

----------------------------------------------------------------------------
(* Properties of TutorRepository.autoMatch, under SpecTutor *)

\* recommended followed by the alternates
Ranked(ret) ==
    IF ret.recommended = NoTutor THEN <<>> ELSE <<ret.recommended>> \o ret.alternates

\* the candidate condition as the specification words it
PassesFilter(t, params) ==
    /\ params.excludeTutorId = Undefined \/ t.id # params.excludeTutorId
    /\ \/ params.subject = ""
       \/ \E i \in DOMAIN t.subjects :
             toLowerCase(t.subjects[i]) = toLowerCase(params.subject)
    /\ \/ params.modality = "all"
       \/ \E i \in DOMAIN t.modalities : t.modalities[i] = params.modality

Passing(params) ==
    { i \in DOMAIN tutors : PassesFilter(tutors[i].value, params) }

Min(a, b) == IF a <= b THEN a ELSE b

\* C11. Ranking order: when a tutor is recommended, the ratings along
\* recommended, alternates[0], alternates[1], alternates[2] never increase, and
\* no tutor that passes the filter has a higher rating than recommended.
C11_RankingOrder ==
    (mlast.called /\ mlast.ret.recommended # NoTutor) =>
        LET ranked == Ranked(mlast.ret)
        IN  /\ \A i \in DOMAIN ranked :
                  i + 1 \in DOMAIN ranked => ranked[i].rating >= ranked[i + 1].rating
            /\ \A i \in Passing(mlast.params) :
                  tutors[i].value.rating <= mlast.ret.recommended.rating

\* a match whose best tutor is stored last and whose alternates differ in
\* rating
C11_Witness ==
    /\ mlast.called
    /\ mlast.ret.recommended # NoTutor
    /\ Len(mlast.ret.alternates) = 3
    /\ mlast.ret.recommended.id = tutors[Len(tutors)].key
    /\ mlast.ret.recommended.rating > mlast.ret.alternates[1].rating
    /\ mlast.ret.alternates[1].rating > mlast.ret.alternates[3].rating

\* C12. Alternates bound: there are never more than 3 alternates; when a
\* tutor is recommended there are min(3, candidates - 1) of them; recommended
\* is not among the alternates and no tutor is returned twice.
C12_AlternatesBound ==
    mlast.called =>
        LET ranked == Ranked(mlast.ret)
            n == Cardinality(Passing(mlast.params))
        IN  /\ Len(mlast.ret.alternates) <= 3
            /\ mlast.ret.recommended # NoTutor =>
                  Len(mlast.ret.alternates) = Min(3, n - 1)
            /\ \A i, j \in DOMAIN ranked : i # j => ranked[i].id # ranked[j].id

\* five candidates, of which one is recommended and three are alternates
C12_Witness ==
    /\ mlast.called
    /\ Cardinality(Passing(mlast.params)) = 5
    /\ mlast.ret.recommended # NoTutor
    /\ Len(mlast.ret.alternates) = 3

\* C13. Exclusion: with excludeTutorId set, no tutor returned has that id,
\* also when the excluded tutor is the best of those that match the subject
\* and the modality.
C13_Exclusion ==
    (mlast.called /\ mlast.params.excludeTutorId # Undefined) =>
        \A i \in DOMAIN Ranked(mlast.ret) :
            Ranked(mlast.ret)[i].id # mlast.params.excludeTutorId

\* the excluded tutor matches and has a higher rating than every tutor that
\* was returned
C13_Witness ==
    /\ mlast.called
    /\ mlast.params.excludeTutorId # Undefined
    /\ mlast.ret.recommended # NoTutor
    /\ \E i \in DOMAIN tutors :
          /\ tutors[i].key = mlast.params.excludeTutorId
          /\ PassesFilter(tutors[i].value,
                          [mlast.params EXCEPT !.excludeTutorId = Undefined])
          /\ tutors[i].value.rating > mlast.ret.recommended.rating

\* C14. Candidate filter: autoMatch never throws; it returns recommended null
\* and no alternates exactly when no tutor passes the filter (not excluded,
\* teaches the subject up to case or subject empty, supports the modality or
\* modality "all"); every tutor returned passes it, and all that pass are
\* counted; on the fixture, "Calculus" and "online" give tutor-4 alone.
C14_CandidateFilter ==
    mlast.called =>
        LET ranked == Ranked(mlast.ret)
            n == Cardinality(Passing(mlast.params))
        IN  /\ mlast.err = NoError
            /\ (mlast.ret.recommended = NoTutor) <=> (n = 0)
            /\ mlast.ret.recommended = NoTutor => mlast.ret.alternates = <<>>
            /\ \A i \in DOMAIN ranked : PassesFilter(ranked[i], mlast.params)
            /\ Len(ranked) = Min(4, n)
            /\ ( /\ tutors = initializeTutors(MapClear, MockTutors)
                 /\ mlast.params.subject = "Calculus"
                 /\ mlast.params.modality = "online" ) =>
                   /\ mlast.ret.recommended.id = "tutor-4"
                   /\ mlast.ret.alternates = <<>>

\* the subject was given in another case than the tutors spell it, and
\* tutors were found
C14_Witness ==
    /\ mlast.called
    /\ mlast.params.subject = "PHYSICS 1"
    /\ mlast.params.modality = "in_person"
    /\ mlast.ret.recommended # NoTutor
    /\ Len(mlast.ret.alternates) >= 1
    /\ Cardinality(Passing(mlast.params)) < Len(tutors)

\* C15. Determinism and purity: autoMatch leaves the repository, its tutors
\* and their order, as it was, and a call with the parameters of the call
\* before it returns the same recommended and the same alternates in the same
\* order.
C15_Deterministic ==
    [][ mlast'.called =>
          /\ tutors' = tutors
          /\ mlast'.repeat => mlast'.ret = mlast.ret ]_vars

\* the same match was asked for twice and returned tutors of equal rating
C15_Witness ==
    /\ mlast.called
    /\ mlast.repeat
    /\ Len(mlast.ret.alternates) >= 2
    /\ mlast.ret.alternates[1].rating = mlast.ret.alternates[2].rating

----------------------------------------------------------------------------
(* Properties of the repositories, under SpecStore *)

LookupOps ==
    {"students.findById", "students.getById", "students.findByIds",
     "students.exists", "sessions.findById", "sessions.findByStudentId",
     "tutors.findById"}

Keys(m) == { e.key : e \in Range(m) }

\* C16: getById(id) fails with a not-found error when no student has that id and
\* returns the student otherwise; findById and the other lookups never fail and
\* give an absent or empty result for an unknown id; no lookup changes the
\* contents of a repository.
C16_LookupFailure ==
    [][ LET q == qlast'
        IN  Op(q) \in LookupOps =>
              /\ students' = students /\ sessions' = sessions /\ tutors' = tutors
              /\ Op(q) = "students.getById" =>
                   IF Arg(q) \in Keys(students)
                   THEN Err(q) = NoError /\ Ret(q) = MapGet(students, Arg(q))
                   ELSE Err(q) = NotFound(Arg(q))
              /\ Op(q) # "students.getById" => Err(q) = NoError
              /\ Op(q) = "students.findById" =>
                   Ret(q) = IF Arg(q) \in Keys(students)
                           THEN MapGet(students, Arg(q)) ELSE NoStudent
              /\ Op(q) = "students.findByIds" =>
                   /\ \A i \in DOMAIN Ret(q) : Ret(q)[i].id \in Keys(students)
                   /\ (\A i \in DOMAIN Arg(q) : Arg(q)[i] \notin Keys(students))
                        => Ret(q) = <<>>
              /\ Op(q) = "students.exists" => (Ret(q) <=> Arg(q) \in Keys(students))
              /\ Op(q) = "sessions.findById" =>
                   Ret(q) = IF Arg(q) \in Keys(sessions)
                           THEN MapGet(sessions, Arg(q)) ELSE NoSession
              /\ Op(q) = "sessions.findByStudentId" =>
                   (Arg(q) = UnknownStudent => Ret(q) = <<>>)
              /\ Op(q) = "tutors.findById" =>
                   Ret(q) = IF Arg(q) \in Keys(tutors)
                           THEN MapGet(tutors, Arg(q)) ELSE NoTutor ]_vars

\* getById has failed for an unknown id on a repository that holds students
C16_Witness ==
    /\ Op(qlast) = "students.getById"
    /\ Arg(qlast) = UnknownStudent
    /\ Err(qlast) = NotFound(UnknownStudent)
    /\ MapSize(students) = 2

\* C17: after initialize(records) a repository holds exactly one record per
\* distinct id in records, the last one given for that id, and nothing stored
\* before the call, whatever initialize and add calls came before; a second
\* initialize with the same records leaves the contents as they are.
C17_InitializeReplaces ==
    [][ LET q == qlast'
            l == Arg(q)
        IN  Op(q) = "sessions.initialize" =>
              /\ Keys(sessions') = { l[i].id : i \in DOMAIN l }
              /\ MapSize(sessions') = Cardinality({ l[i].id : i \in DOMAIN l })
              /\ \A i \in DOMAIN l :
                   (\A j \in DOMAIN l : j > i => l[j].id # l[i].id)
                     => MapGet(sessions', l[i].id) = Session(l[i])
              /\ (Op(qlast) = "sessions.initialize" /\ Arg(qlast) = l)
                   => sessions' = sessions ]_vars

\* initialize was given two different records of one id and kept the last
C17_Witness ==
    /\ Op(qlast) = "sessions.initialize"
    /\ Len(Arg(qlast)) = 2
    /\ Arg(qlast)[1].id = SessionIds[2] /\ Arg(qlast)[2].id = SessionIds[2]
    /\ Arg(qlast)[1].status # Arg(qlast)[2].status
    /\ MapSize(sessions) = 1
    /\ MapGet(sessions, SessionIds[2]).status = Arg(qlast)[2].status

----------------------------------------------------------------------------
(* Properties of Session, under SpecSession *)

\* C18: isActive() is true iff status is "active", or status is "upcoming" and
\* start <= now < end, for every status and every clock value.
C18_IsActiveWindow ==
    Op(qlast) = "isActive" =>
        (Ret(qlast) <=>
            \/ TheSession.status = "active"
            \/ /\ TheSession.status = "upcoming"
               /\ TheSession.startTime <= At(qlast)
               /\ At(qlast) < TheSession.endTime)

\* C19: canJoin(minutesBefore) is false for status cancelled or no_show; for
\* every other status it is true iff start - minutesBefore <= now < end.
C19_CanJoinWindow ==
    Op(qlast) = "canJoin" =>
        IF TheSession.status \in {"cancelled", "no_show"}
        THEN Ret(qlast) = FALSE
        ELSE Ret(qlast) <=>
                /\ TheSession.startTime - Arg(qlast) <= At(qlast)
                /\ At(qlast) < TheSession.endTime

----------------------------------------------------------------------------
(* Properties of the upcoming queries, under SpecUpcoming *)

\* the sessions the queries are to return
UpcomingOf(field, id, clock) ==
    { s \in Range(findAllSessions(sessions)) :
        s[field] = id /\ s.status = "upcoming" /\ s.startTime > clock }

ExactlyAscending(ret, S) ==
    /\ Range(ret) = S
    /\ Len(ret) = Cardinality(S)
    /\ \A i \in 1..(Len(ret) - 1) : ret[i].startTime <= ret[i + 1].startTime

EarliestOf(ret, S) ==
    IF S = {} THEN ret = NoSession
    ELSE ret \in S /\ \A s \in S : ret.startTime <= s.startTime

\* C20: getUpcomingForStudent / getUpcomingForTutor return exactly the sessions
\* of that student / tutor whose status is "upcoming" and whose start is strictly
\* after now, by start ascending; getNextSessionForStudent / Tutor return an
\* upcoming session with the earliest start, and nothing when there is none.
C20_UpcomingQueries ==
    /\ Op(qlast) = "getUpcomingForStudent" =>
         ExactlyAscending(Ret(qlast), UpcomingOf("studentId", Arg(qlast), At(qlast)))
    /\ Op(qlast) = "getUpcomingForTutor" =>
         ExactlyAscending(Ret(qlast), UpcomingOf("tutorId", Arg(qlast), At(qlast)))
    /\ Op(qlast) = "getNextSessionForStudent" =>
         EarliestOf(Ret(qlast), UpcomingOf("studentId", Arg(qlast), At(qlast)))
    /\ Op(qlast) = "getNextSessionForTutor" =>
         EarliestOf(Ret(qlast), UpcomingOf("tutorId", Arg(qlast), At(qlast)))

\* of three stored sessions a query returned two, the one stored last and
\* starting first ahead of the one stored first
C20_Witness ==
    /\ Op(qlast) = "getUpcomingForTutor"
    /\ At(qlast) = 0
    /\ Len(Ret(qlast)) = 2
    /\ Ret(qlast)[1].startTime < Ret(qlast)[2].startTime
    /\ Ret(qlast)[1].id = SessionIds[3]
    /\ Ret(qlast)[2].id = SessionIds[1]
    /\ MapSize(sessions) = 3

----------------------------------------------------------------------------
(* Properties of bookings, under SpecBooking *)

\* C21: sessions are never deleted: over add, the queries and booking
\* confirmations every stored session id stays retrievable by findById and
\* count() never decreases; each booking confirmation adds one session, with
\* status "upcoming".
C21_NeverDeleted ==
    [][ /\ \A id \in Keys(sessions) : findSessionById(sessions', id).ret # NoSession
        /\ MapSize(sessions') >= MapSize(sessions)
        /\ Op(qlast') = "sessions.add" =>
              findSessionById(sessions', Arg(qlast').id).ret = Ret(qlast')
        /\ Op(qlast') = "confirmBooking" =>
              /\ MapSize(sessions') = MapSize(sessions) + 1
              /\ Ret(qlast').status = "upcoming"
              /\ Ret(qlast').id \notin Keys(sessions)
              /\ findSessionById(sessions', Ret(qlast').id).ret = Ret(qlast') ]_vars

\* two bookings were confirmed on top of the fixture and a stored session was
\* added again under its id
C21_Witness ==
    /\ Op(qlast) = "sessions.add"
    /\ MapSize(sessions) = 4
    /\ sessions[1].key = Arg(qlast).id
    /\ sessions[3].value.status = "upcoming"
    /\ sessions[4].value.id = "session-1002"

----------------------------------------------------------------------------
(* Further properties of generateSlotsForWeek, under SpecPattern *)

\* the positions of a result whose slots lie on the date of slot i
SameDate(ret, i) == { j \in DOMAIN ret : DateOf(ret[j].start) = DateOf(ret[i].start) }

\* C24: a step that would overrun the end of the range is dropped, not
\* clamped: every slot generated lasts exactly durationMinutes, starts at or
\* after startHour:startMinute and ends at or before endHour:endMinute of its
\* day, and each slot of a day starts where the previous one ends.
C24_NoOverrun ==
    \A k \in DOMAIN hist :
        IsGenerate(hist[k]) =>
            LET ret == hist[k].ret
            IN  \A i \in DOMAIN ret :
                    /\ ret[i].end - ret[i].start = pattern.durationMinutes
                    /\ DateOf(ret[i].end) = DateOf(ret[i].start)
                    /\ TimeOf(ret[i].start) >= pattern.startHour * 60 + pattern.startMinute
                    /\ TimeOf(ret[i].end) <= pattern.endHour * 60 + pattern.endMinute
                    /\ (i + 1 \in SameDate(ret, i)) => ret[i + 1].start = ret[i].end
                    /\ \A j \in SameDate(ret, i) : j > i => ret[j].start >= ret[i].end

\* two slots a day were generated and the half hour left over was dropped
C24_Witness ==
    \E k \in DOMAIN hist :
        /\ IsGenerate(hist[k])
        /\ Len(hist[k].ret) = 2 * Len(pattern.days)
        /\ Len(pattern.days) >= 2
        /\ pattern.durationMinutes = 60
        /\ totalRangeMinutes(pattern) = 150

\* C25: weekday mapping: for weekStart a Monday every slot generated for
\* weekday d (0 = Sunday .. 6 = Saturday) lies on the date weekStart + 6 days
\* when d = 0 and weekStart + (d - 1) days otherwise, so within the seven days
\* from weekStart with Sunday last; the slots come in ascending order of d,
\* Sunday's first.
C25_WeekdayMapping ==
    \A k \in DOMAIN hist :
        (IsGenerate(hist[k]) /\ hist[k].active) =>
            LET ret == hist[k].ret
                monday == DateOf(hist[k].arg)
                dateFor(d) == IF d = 0 THEN monday + 6 ELSE monday + (d - 1)
                weekdayAt(i) == CHOOSE d \in 0..6 : dateFor(d) = DateOf(ret[i].start)
            IN  /\ \A i \in DOMAIN ret :
                      /\ DateOf(ret[i].start) \in monday..(monday + 6)
                      /\ \E j \in DOMAIN pattern.days :
                            DateOf(ret[i].start) = dateFor(pattern.days[j])
                /\ \A j \in DOMAIN pattern.days :
                      \E i \in DOMAIN ret : DateOf(ret[i].start) = dateFor(pattern.days[j])
                /\ \A i \in DOMAIN ret :
                      i + 1 \in DOMAIN ret => weekdayAt(i) <= weekdayAt(i + 1)

\* Sunday and Monday are selected, for the second week: the first slot lies
\* on that week's last day and a later slot on its first
C25_Witness ==
    \E k \in DOMAIN hist :
        /\ IsGenerate(hist[k]) /\ hist[k].active
        /\ hist[k].arg = DaysPerWeek * MinutesPerDay
        /\ pattern.days = <<0, 1>>
        /\ Len(hist[k].ret) >= 2
        /\ DateOf(hist[k].ret[1].start) = 13
        /\ DateOf(hist[k].ret[Len(hist[k].ret)].start) = 7

----------------------------------------------------------------------------
(* Further properties of TimeSlot, under SpecTimeSlot *)

\* C26: addBooking does not consult isActive: it succeeds exactly when the
\* slot is not fully booked, also on a blocked slot, where it returns a slot
\* with booked + 1; so it never fails when isBookable holds, and removeBooking
\* never fails when booked > 0.
C26_IgnoresActive ==
    [][ LET r == heap[last'.recv]
        IN  /\ last'.op = "addBooking" =>
                  /\ (last'.err = NoError) <=> (r.booked < r.capacity)
                  /\ (r.isActive /\ r.booked < r.capacity) => last'.err = NoError
                  /\ (~r.isActive /\ r.booked < r.capacity) =>
                        /\ heap'[last'.res].booked = r.booked + 1
                        /\ heap'[last'.res].isActive = FALSE
            /\ (last'.op = "removeBooking" /\ r.booked > 0) =>
                  last'.err = NoError ]_vars

\* a booking was added to a blocked slot, which is not bookable
C26_Witness ==
    /\ last.op = "addBooking"
    /\ last.err = NoError
    /\ ~heap[last.recv].isActive
    /\ ~isBookable(heap[last.recv])
    /\ heap[last.res].booked = heap[last.recv].booked + 1

----------------------------------------------------------------------------
(* Further properties of Session, under SpecSession *)

\* C28: for every status and clock value isUpcoming() and isActive() are
\* never both true; while the status stays "upcoming" and the clock advances,
\* isUpcoming() once false is never true again.
C28_UpcomingThenActive ==
    [][ /\ ~(isUpcoming(TheSession, now) /\ isActive(TheSession, now))
        /\ ~(isUpcoming(TheSession', now') /\ isActive(TheSession', now'))
        /\ ( /\ TheSession.status = "upcoming"
             /\ TheSession'.status = "upcoming"
             /\ ~isUpcoming(TheSession, now) ) => ~isUpcoming(TheSession', now') ]_vars

\* an upcoming session was asked isUpcoming() after it had begun, when it is
\* active
C28_Witness ==
    /\ Op(qlast) = "isUpcoming"
    /\ Ret(qlast) = FALSE
    /\ TheSession.status = "upcoming"
    /\ At(qlast) > TheSession.startTime
    /\ isActive(TheSession, At(qlast))
    /\ now > At(qlast)

----------------------------------------------------------------------------
(* Further properties of autoMatch, under SpecTutor *)

\* where a tutor stands in the repository
Position(id) == CHOOSE i \in DOMAIN tutors : tutors[i].key = id

\* C29: tie-break: tutors of equal rating are ranked in the order in which
\* initialize inserted them into the repository; one that was cut off stands
\* after every returned tutor of its rating.
C29_TieBreak ==
    mlast.called =>
        LET ranked == Ranked(mlast.ret)
        IN  /\ \A i, j \in DOMAIN ranked :
                  (i < j /\ ranked[i].rating = ranked[j].rating) =>
                      Position(ranked[i].id) < Position(ranked[j].id)
            /\ \A c \in Passing(mlast.params) : \A i \in DOMAIN ranked :
                  ( /\ tutors[c].value.rating = ranked[i].rating
                    /\ \A j \in DOMAIN ranked : ranked[j].id # tutors[c].key ) =>
                      Position(ranked[i].id) < c

\* recommended and the first alternate have one rating, and a third tutor of
\* that rating comes after them
C29_Witness ==
    /\ mlast.called
    /\ Len(mlast.ret.alternates) = 3
    /\ mlast.ret.recommended.rating = mlast.ret.alternates[1].rating
    /\ mlast.ret.alternates[1].rating = mlast.ret.alternates[2].rating
    /\ mlast.ret.alternates[3].rating < mlast.ret.alternates[2].rating
    /\ Position(mlast.ret.alternates[3].id) < Position(mlast.ret.recommended.id)

----------------------------------------------------------------------------
(* Properties of the loops of generateSlotsForWeek *)

\* the slots pushed so far that lie on the day of slot i
PushedOnDayOf(i) ==
    { j \in DOMAIN run.slots : DateOf(run.slots[j].start) = DateOf(run.slots[i].start) }

\* one pass through the body of the while loop
Iteration == run.pc = "while" /\ Len(run'.slots) = Len(run.slots) + 1

\* C27: generateSlotsForWeek terminates for every pattern that validate
\* accepts and every weekStart: an activation that has been entered returns,
\* with the slots that the call yields; no day ever holds more than
\* floor(range / duration) slots; and every iteration of the while loop moves
\* currentMinutes on by durationMinutes, which is at least 15.  A pattern
\* whose duration is NaN, which validate accepts too, fails the loop test at
\* once and so returns without an iteration.
C27_Terminates ==
    /\ (run.pc = "entry") ~> (run.pc = "done")
    /\ [](run.pc = "done" =>
            run.slots = generateSlotsForWeek(run.p, run.weekStart).ret)
    /\ [](\A i \in DOMAIN run.slots :
            Le(Cardinality(PushedOnDayOf(i)), slotsPerDay(run.p)))
    /\ [][Iteration =>
            /\ run'.currentMinutes = run.currentMinutes + run.p.durationMinutes
            /\ Ge(run.p.durationMinutes, 15)]_vars

\* an activation over two days or more has returned with several slots
C27_Witness ==
    /\ run.pc = "done"
    /\ Len(run.p.days) >= 2
    /\ Len(run.slots) >= 2 * Len(run.p.days)
    /\ totalRangeMinutes(run.p) % run.p.durationMinutes # 0

----------------------------------------------------------------------------
(* Properties of the availability page *)

\* the ids, starts and ends of a list of slots, in its order
Timing(list) ==
    [i \in DOMAIN list |-> <<list[i].id, list[i].start, list[i].end>>]

\* C22: the id that fromPattern gives a slot is fixed by its start and its
\* patternId alone: among the slots displayed before and after any handler,
\* two have equal ids exactly when they have the same start and the same
\* patternId, whatever their capacity, booked count, isActive and end; and
\* when the slots of the same week are generated again from the same
\* patterns, the list has the same ids, starts and ends in the same order.
C22_StableIds ==
    [][/\ \A a, b \in Range(slots) \cup Range(slots') :
            (a.id = b.id) <=> (a.start = b.start /\ a.patternId = b.patternId)
       /\ (patterns' = patterns /\ week' = week) => Timing(slots') = Timing(slots)]_vars

\* the week was generated again while two patterns had a slot at one start
C22_Witness ==
    /\ vlast[1] \in {"currentWeek", "handleToggleSlot"}
    /\ \E i, j \in DOMAIN slots :
          /\ slots[i].start = slots[j].start
          /\ slots[i].patternId # slots[j].patternId
          /\ slots[i].id # slots[j].id
    /\ \E i \in DOMAIN slots : slots[i].booked = 1 /\ ~slots[i].isActive

\* the invariants of a pattern
PatternValid(p) ==
    /\ Len(p.days) >= 1
    /\ endTimeMinutes(p) > startTimeMinutes(p)
    /\ Ge(p.durationMinutes, 15)
    /\ Le(p.durationMinutes, totalRangeMinutes(p))
    /\ Ge(p.capacity, 1)

\* C23: whatever create, edit, toggle and delete actions of the page have
\* run, every pattern of the collection has at least one day, an end after
\* its start, 15 <= durationMinutes <= total range and capacity >= 1.
C23_PatternInvariants == \A k \in DOMAIN patterns : PatternValid(patterns[k])

\* a submission that validate rejects leaves the collection as it was
RejectedKeepsPatterns ==
    [][(vlast'[1] = "handlePatternSubmit" /\ vlast'[2] # Null) => patterns' = patterns]_vars

\* the isActive that the stored override of a slot id calls for
StoredActive(id) ==
    IF MapHas(slotOverrides, id) /\ MapGet(slotOverrides, id).hasIsActive
    THEN MapGet(slotOverrides, id).isActive
    ELSE TRUE

\* C30: whatever slot toggles, capacity commits, pattern actions and week
\* navigation have run, every displayed slot has 0 <= booked <= capacity, and
\* its isActive is that of the override stored for its id when there is one
\* and true otherwise.
C30_DisplayedSlots ==
    \A i \in DOMAIN slots :
        /\ Le(0, slots[i].booked)
        /\ Le(slots[i].booked, slots[i].capacity)
        /\ slots[i].isActive = StoredActive(slots[i].id)

====
